---- MODULE Spec2Model ----
(***************************************************************************)
(* Model of the bestdori-live2d-downloader build pipeline:                 *)
(* pkg/downloader/downloader.go (Downloader, Live2dBuilder and its worker  *)
(* pool), with the parts of pkg/config and pkg/tui that it reads.          *)
(*                                                                         *)
(* Strings that the code inspects (paths, file names) are sequences of     *)
(* atoms, so that HasSuffix, Contains, Split, Base and Rel are computed    *)
(* rather than assumed.  Errors are sequences of message parts: wrapping   *)
(* with fmt.Errorf("...: %w", err) prepends a part, nil is <<>>.           *)
(***************************************************************************)
EXTENDS Integers, Sequences, FiniteSets, TLC

\* ---------------------------------------------------------------- bounds
\* The configured MaxConcurrentModels and MaxConcurrentDownloads.
ConfModels == 1
ConfDownloads == 2

\* ---------------------------------------------------------------- strings
Sep == "/"

Join(p, name) == p \o <<Sep>> \o name

HasSuffix(s, t) ==
    /\ Len(s) >= Len(t)
    /\ SubSeq(s, Len(s) - Len(t) + 1, Len(s)) = t

Contains(s, t) ==
    \E i \in 1..(Len(s) - Len(t) + 1) : SubSeq(s, i, i + Len(t) - 1) = t

\* filepath.Rel(base, target) followed by filepath.ToSlash, for a target
\* that was built by joining names onto base.
Rel(base, target) == SubSeq(target, Len(base) + 2, Len(target))

LastSep(p) ==
    IF \E i \in 1..Len(p) : p[i] = Sep
    THEN CHOOSE i \in 1..Len(p) : p[i] = Sep /\ \A j \in (i + 1)..Len(p) : p[j] # Sep
    ELSE 0

\* filepath.Base and filepath.Dir
Base(p) == SubSeq(p, LastSep(p) + 1, Len(p))

Dir(p) == SubSeq(p, 1, LastSep(p) - 1)

\* Atoms that contain a dot; each of them starts with it.
DotAtoms == {".moc", ".json", ".png", ".mtn", ".exp"}

\* strings.Split(name, ".")[0]
SplitDot0(name) ==
    IF \E i \in 1..Len(name) : name[i] \in DotAtoms
    THEN LET k == CHOOSE i \in 1..Len(name) :
                      name[i] \in DotAtoms /\ \A j \in 1..(i - 1) : name[j] \notin DotAtoms
         IN SubSeq(name, 1, k - 1)
    ELSE name

\* ---------------------------------------------------------------- errors
Nil == <<>>

Wrap(msg, err) == <<msg>> \o err

ErrCancelled == <<"download cancelled">>

ErrHTTPStatus(code) == <<"http status error", ToString(code)>>

ErrHTML == <<"file missing or inaccessible">>

\* ---------------------------------------------------------------- JSON
\* A value of type any that encoding/json decodes: t is its dynamic type
\* ("nil" is the nil interface a map lookup gives for a key that is absent).
JNil == [t |-> "nil", s |-> <<>>, l |-> <<>>]

JStr(s) == [t |-> "string", s |-> s, l |-> <<>>]

JNum(s) == [t |-> "float64", s |-> s, l |-> <<>>]

JList(l) == [t |-> "[]any", s |-> <<>>, l |-> l]

\* A map[string]any as a record over the keys the program looks up: a key
\* that is absent has JNil.  <<>> is the nil map and <<m>> a map.
CharaMaps ==
    {[firstName |-> JNil],
     [firstName |-> JStr(<<"K", "a">>)],
     [firstName |-> JList(<<JStr(<<"k">>)>>)],
     [firstName |-> JList(<<JStr(<<"k">>), JNum(<<"5">>)>>)],
     [firstName |-> JList(<<JStr(<<"k">>), JStr(<<"K", "a">>)>>)]}

\* The bytes of a response body or of a cache file: text that is not the
\* JSON of an object, the JSON null, or the JSON of an object.
Bodies ==
    {[valid |-> FALSE, doc |-> <<>>], [valid |-> TRUE, doc |-> <<>>]}
        \cup {[valid |-> TRUE, doc |-> <<m>>] : m \in CharaMaps}

\* json.Marshal of a map[string]any that was decoded from JSON: it has
\* only values json can encode, and the nil map gives null.
jsonMarshal(result) == [err |-> Nil, bytes |-> [valid |-> TRUE, doc |-> result]]

\* json.Unmarshal / Decoder.Decode into a nil map[string]any: null leaves
\* the map nil.
jsonUnmarshal(bytes) ==
    IF bytes.valid
    THEN [err |-> Nil, result |-> bytes.doc]
    ELSE [err |-> <<"invalid character">>, result |-> <<>>]

\* ---------------------------------------------------------------- API client
\* The characters whose record is asked for, and their cache files.
CharaIDs == {36}

CacheNames == {<<"chara_", id, ".json">> : id \in CharaIDs}

NoFile == [exists |-> FALSE, fresh |-> FALSE, bytes |-> [valid |-> FALSE, doc |-> <<>>]]

NoCacheFiles == [n \in CacheNames |-> NoFile]

\* What the remote host answers to one request.
APIResponses ==
    {[net |-> "fail", status |-> 0, body |-> [valid |-> FALSE, doc |-> <<>>]],
     [net |-> "ok", status |-> 404, body |-> [valid |-> FALSE, doc |-> <<>>]]}
        \cup {[net |-> "ok", status |-> 200, body |-> bd] : bd \in Bodies}

\* What the local file system does to the calls of one FetchData.
CacheIO == {"ok", "readFail", "mkdirFail", "openFail", "writeFail"}

\* The clients: useCharaCache set or not.
Clients ==
    {[useCharaCache |-> u, charaCachePath |-> <<"live2d_chara_cache">>] : u \in BOOLEAN}

readCacheData(files, cache, io) ==
    IF io = "readFail"
    THEN [data |-> <<>>, err |-> Wrap("read cache failed", <<"read">>), files |-> files]
    ELSE LET u == jsonUnmarshal(files[cache].bytes)
         IN IF u.err # Nil
            THEN [data |-> <<>>, err |-> Wrap("parse cache failed", u.err), files |-> files]
            ELSE [data |-> u.result, err |-> Nil, files |-> files]

\* A FetchData that logs a failed write of the cache file and goes on.
FetchDataWriteErrorIgnored(c, files, resp, cache, io) ==
    LET useCache == c.useCharaCache /\ cache # <<>>
        u == jsonUnmarshal(resp.body)
    IN IF useCache /\ files[cache].exists /\ files[cache].fresh
       THEN readCacheData(files, cache, io)
       ELSE IF resp.net # "ok"
       THEN [data |-> <<>>, err |-> Wrap("fetch failed", <<"net">>), files |-> files]
       ELSE IF resp.status # 200
       THEN [data |-> <<>>, err |-> <<"HTTP error", ToString(resp.status)>>, files |-> files]
       ELSE IF u.err # Nil
       THEN [data |-> <<>>, err |-> Wrap("parse JSON failed", u.err), files |-> files]
       ELSE IF useCache /\ io = "mkdirFail"
       THEN [data |-> <<>>, err |-> Wrap("create cache dir failed", <<"mkdir">>), files |-> files]
       ELSE IF useCache /\ io = "ok"
       THEN [data |-> u.result, err |-> Nil,
             files |-> [files EXCEPT ![cache] =
                           [exists |-> TRUE, fresh |-> TRUE,
                            bytes |-> jsonMarshal(u.result).bytes]]]
       ELSE [data |-> u.result, err |-> Nil, files |-> files]

\* Client.FetchData(ctx, url, cache): the data and the error returned, and
\* the cache files afterwards.  resp is what the host answers (a done ctx
\* makes the request fail); a cache name of <<>> is the empty string.
FetchData(c, files, resp, cache, io) ==
    LET useCache == c.useCharaCache /\ cache # <<>>
        u == jsonUnmarshal(resp.body)
    IN IF useCache /\ files[cache].exists /\ files[cache].fresh
       THEN readCacheData(files, cache, io)
       ELSE IF resp.net # "ok"
       THEN [data |-> <<>>, err |-> Wrap("fetch failed", <<"net">>), files |-> files]
       ELSE IF resp.status # 200
       THEN [data |-> <<>>, err |-> <<"HTTP error", ToString(resp.status)>>, files |-> files]
       ELSE IF u.err # Nil
       THEN [data |-> <<>>, err |-> Wrap("parse JSON failed", u.err), files |-> files]
       ELSE IF useCache /\ io = "mkdirFail"
       THEN [data |-> <<>>, err |-> Wrap("create cache dir failed", <<"mkdir">>), files |-> files]
       ELSE IF useCache /\ io = "openFail"
       THEN [data |-> <<>>, err |-> Wrap("write cache file failed", <<"open">>), files |-> files]
       ELSE IF useCache /\ io = "writeFail"
       THEN [data |-> <<>>, err |-> Wrap("write cache file failed", <<"write">>),
             files |-> [files EXCEPT ![cache] =
                           [exists |-> TRUE, fresh |-> TRUE,
                            bytes |-> [valid |-> FALSE, doc |-> <<>>]]]]
       ELSE IF useCache
       THEN [data |-> u.result, err |-> Nil,
             files |-> [files EXCEPT ![cache] =
                           [exists |-> TRUE, fresh |-> TRUE,
                            bytes |-> jsonMarshal(u.result).bytes]]]
       ELSE [data |-> u.result, err |-> Nil, files |-> files]

\* Client.GetChara(ctx, charaID)
GetChara(c, files, resp, charaID, io) ==
    FetchData(c, files, resp, <<"chara_", charaID, ".json">>, io)

\* ---------------------------------------------------------------- file system
\* disk.files: the regular files that exist; disk.partial: those among them
\* whose content is not the whole remote file; disk.dirs: the directories.
EmptyDisk == [files |-> {}, dirs |-> {}, partial |-> {}]

Exists(d, p) == p \in d.files \/ p \in d.dirs

Ancestors(p) == {SubSeq(p, 1, i - 1) : i \in {j \in 2..Len(p) : p[j] = Sep}}

MkdirAll(d, p) == [d EXCEPT !.dirs = @ \cup Ancestors(p) \cup {p}]

\* ---------------------------------------------------------------- Asset Fetcher
\* What the remote host and the local I/O do to one request.
Responses ==
    {[net |-> "ok", status |-> 200, html |-> FALSE, io |-> "ok"],
     [net |-> "ok", status |-> 200, html |-> FALSE, io |-> "copyFail"],
     [net |-> "ok", status |-> 404, html |-> FALSE, io |-> "ok"],
     [net |-> "ok", status |-> 200, html |-> TRUE, io |-> "ok"]}

\* A check that tolerates 404 for every file.
validateResponseAny404(resp, allowNotFound) ==
    IF resp.status # 200
    THEN IF resp.status = 404
         THEN Nil
         ELSE Wrap("download http error", ErrHTTPStatus(resp.status))
    ELSE IF resp.html THEN ErrHTML ELSE Nil

\* A check that does not look at the content type.
validateResponseNoHTML(resp, allowNotFound) ==
    IF resp.status # 200
    THEN IF allowNotFound /\ resp.status = 404
         THEN Nil
         ELSE Wrap("download http error", ErrHTTPStatus(resp.status))
    ELSE Nil

validateResponse(resp, allowNotFound) ==
    IF resp.status # 200
    THEN IF allowNotFound /\ resp.status = 404
         THEN Nil
         ELSE Wrap("download http error", ErrHTTPStatus(resp.status))
    ELSE IF resp.html THEN ErrHTML ELSE Nil

\* createFileAndDirectory: MkdirAll of the parent, then os.Create, which
\* leaves an empty (truncated) file.
createFileAndDirectory(d, resp, filePath) ==
    IF resp.io = "mkdirFail"
    THEN [err |-> <<"mkdir failed">>, disk |-> d]
    ELSE IF resp.io = "createFail"
         THEN [err |-> <<"create file failed">>, disk |-> MkdirAll(d, Dir(filePath))]
         ELSE [err |-> Nil,
               disk |-> [MkdirAll(d, Dir(filePath)) EXCEPT
                             !.files = @ \cup {filePath},
                             !.partial = @ \cup {filePath}]]

\* writeFileContent: io.Copy of the body into the created file.
writeFileContent(d, resp, filePath) ==
    IF resp.io = "copyFail"
    THEN [err |-> <<"write file failed">>, disk |-> d]
    ELSE [err |-> Nil, disk |-> [d EXCEPT !.partial = @ \ {filePath}]]

\* DownloadBundleFile without the select on ctx.Done() at its start.
DownloadBundleFileNoCtxCheck(ctxDone, d, resp, filePath, allowNotFound) ==
    IF resp.net = "fail"
    THEN [err |-> <<"download failed", "transport">>, disk |-> d, requested |-> TRUE]
    ELSE IF validateResponse(resp, allowNotFound) # Nil
    THEN [err |-> validateResponse(resp, allowNotFound), disk |-> d, requested |-> TRUE]
    ELSE IF allowNotFound /\ resp.status = 404
    THEN [err |-> Nil, disk |-> d, requested |-> TRUE]
    ELSE LET c == createFileAndDirectory(d, resp, filePath)
         IN IF c.err # Nil
            THEN [err |-> c.err, disk |-> c.disk, requested |-> TRUE]
            ELSE LET w == writeFileContent(c.disk, resp, filePath)
                 IN [err |-> w.err, disk |-> w.disk, requested |-> TRUE]

\* DownloadBundleFile: the error it returns, the file system it leaves and
\* whether it issued the HTTP request (httpClient.Do).
DownloadBundleFile(ctxDone, d, resp, filePath, allowNotFound) ==
    IF ctxDone
    THEN [err |-> ErrCancelled, disk |-> d, requested |-> FALSE]
    ELSE IF resp.net = "fail"
    THEN [err |-> <<"download failed", "transport">>, disk |-> d, requested |-> TRUE]
    ELSE IF validateResponse(resp, allowNotFound) # Nil
    THEN [err |-> validateResponse(resp, allowNotFound), disk |-> d, requested |-> TRUE]
    ELSE IF allowNotFound /\ resp.status = 404
    THEN [err |-> Nil, disk |-> d, requested |-> TRUE]
    ELSE LET c == createFileAndDirectory(d, resp, filePath)
         IN IF c.err # Nil
            THEN [err |-> c.err, disk |-> c.disk, requested |-> TRUE]
            ELSE LET w == writeFileContent(c.disk, resp, filePath)
                 IN [err |-> w.err, disk |-> w.disk, requested |-> TRUE]

\* ---------------------------------------------------------------- accumulator
ModelMoc == <<"model", ".moc">>

PhysicsJson == <<"physics", ".json">>

getFileType(filePath) ==
    IF HasSuffix(filePath, ModelMoc) THEN "model"
    ELSE IF HasSuffix(filePath, PhysicsJson) THEN "physics"
    ELSE IF Contains(filePath, <<"textures">>) THEN "texture"
    ELSE IF Contains(filePath, <<"motions">>) THEN "motion"
    ELSE IF Contains(filePath, <<"expressions">>) THEN "expression"
    ELSE "unknown"

\* NewLive2dBuilder: the empty Live2dModel.
EmptyModel ==
    [Model |-> <<>>, Physics |-> <<>>, Textures |-> <<>>,
     Motions |-> <<>>, Expressions |-> <<>>]

\* The file of a motion is added to the files its name has already.
updateModelDataMotionAdded(m, filePath, relPath) ==
    LET t == getFileType(filePath)
        name == SplitDot0(Base(filePath))
    IN IF t = "model" THEN [m EXCEPT !.Model = relPath]
       ELSE IF t = "physics" THEN [m EXCEPT !.Physics = relPath]
       ELSE IF t = "texture" THEN [m EXCEPT !.Textures = Append(@, relPath)]
       ELSE IF t = "motion"
            THEN [m EXCEPT !.Motions =
                     [n \in (DOMAIN @) \cup {name} |->
                         IF n = name
                         THEN (IF name \in DOMAIN @ THEN @[name] ELSE <<>>)
                                  \o <<[File |-> relPath]>>
                         ELSE @[n]]]
       ELSE IF t = "expression"
            THEN [m EXCEPT !.Expressions = Append(@, [Name |-> name, File |-> relPath])]
       ELSE m

updateModelData(m, filePath, relPath) ==
    LET t == getFileType(filePath)
        name == SplitDot0(Base(filePath))
    IN IF t = "model" THEN [m EXCEPT !.Model = relPath]
       ELSE IF t = "physics" THEN [m EXCEPT !.Physics = relPath]
       ELSE IF t = "texture" THEN [m EXCEPT !.Textures = Append(@, relPath)]
       ELSE IF t = "motion"
            THEN [m EXCEPT !.Motions =
                     [n \in (DOMAIN @) \cup {name} |->
                         IF n = name THEN <<[File |-> relPath]>> ELSE @[n]]]
       ELSE IF t = "expression"
            THEN [m EXCEPT !.Expressions = Append(@, [Name |-> name, File |-> relPath])]
       ELSE m

\* ---------------------------------------------------------------- state
VARIABLES
    cfg,            \* the *Config that config.Get() gave the downloader:
                    \* MaxConcurrentDownloads, MaxConcurrentModels
    globalConfig,   \* config.globalConfig: <<>> is nil, <<c>> points to c
    call,           \* the last call of a function of the application that
                    \* is checked by itself, with its arguments and results
    cacheFiles,     \* the files of the character cache directory, by name
    app,            \* the App: the frame of its handleBatchDownload call and
                    \* the goroutines it launched, its last lookup or download
    tuiModel,       \* the tui.Model as its key handler and the App see it
    builders,       \* the Live2dBuilder instances: path, data, ModelName
    cancelled,      \* TuiModel.Ctx is done (and cancelChan is closed)
    modelSem,       \* Downloader.modelSem: number of tokens in the channel
    disk,           \* the file system under the save path
    modelJSON,      \* content of <path>/model.json, by path
    tui,            \* TuiModel: Items (by model name), ErrorMessage
    pc,             \* where each Construct() call is
    ret,            \* what Construct() returned (when pc = "done")
    tasks,          \* tasks of prepareDownloadTasks, per builder
    existingFiles,  \* existingFiles of prepareDownloadTasks, per builder
    sent,           \* handleDownloadTasks: tasks sent so far
    taskChan,       \* per builder: [buf, closed]
    errorChan,      \* per builder: number of errors buffered (capacity 1)
    result,         \* per builder and task: the buffer of task.result (capacity 1)
    delivered,      \* per builder and task: sends made on task.result so far
    ri,             \* processDownloadResults: outcomes consumed so far
    completedFiles, \* per builder
    live2dModel,    \* b.model, the accumulator
    workers,        \* per builder: the goroutines of startWorkerPool
    history         \* per builder, what has happened so far: the error
                    \* outcomes in the order they were sent, the tasks whose
                    \* HTTP request was issued, the writes of model.json,
                    \* whether the context was done when Construct() was called,
                    \* whether an outcome was sent before that of an earlier task

vars ==
    <<cfg, builders, cancelled, modelSem, disk, modelJSON, tui, pc, ret, tasks,
      existingFiles, sent, taskChan, errorChan, result, delivered, ri,
      completedFiles, live2dModel, workers, history, globalConfig, call,
      cacheFiles, app, tuiModel>>

\* What the builders and their workers read and write.
buildVars ==
    <<builders, cancelled, modelSem, disk, modelJSON, tui, pc, ret, tasks,
      existingFiles, sent, taskChan, errorChan, result, delivered, ri,
      completedFiles, live2dModel, workers, history>>

\* No call yet.
NoCall == [op |-> "none"]

\* handleBatchDownload has not been called.
NoBatch ==
    [handler |-> "none", input |-> <<>>,
     pc |-> "idle", ret |-> "none", selectedItems |-> <<>>, i |-> 1, modelSem |-> 0,
     drained |-> 0, errChan |-> <<>>, completed |-> {}, ctxDone |-> FALSE,
     g |-> <<>>, err |-> <<>>, constructErr |-> <<>>, attempts |-> <<>>,
     sent |-> {}, peak |-> 0, crashed |-> FALSE, raced |-> FALSE, names |-> <<>>]

StateInput == "input"

StateLoading == "loading"

StateList == "list"

StateDownloading == "downloading"

KeyEsc == "esc"

\* NewModel(): nothing typed, no list, no download item, the channels
\* empty, the cancel channel open and the context live.  closes counts the
\* close(m.cancelChan) executed, quit follows the tea.Quit command, listMsg
\* is the UpdateListMsg on its way to Update, and the cursor and the
\* selected items of Live2dList are counted from 0.
NewModel ==
    [State |-> StateInput, Quitting |-> FALSE, CtxDone |-> FALSE, closes |-> 0,
     panic |-> FALSE, quit |-> "none", TextInput |-> <<>>,
     Live2dList |-> [items |-> <<>>, index |-> 0, selected |-> {}],
     SelectedIDs |-> <<>>, Items |-> {}, ErrorMessage |-> <<>>,
     SearchChan |-> <<>>, SelectChan |-> <<>>, listMsg |-> <<>>]

Builds == DOMAIN builders

dataPath(b) == Join(builders[b].path, <<"data">>)

modelJSONPath(b) == Join(builders[b].path, <<"model", ".json">>)

\* ---------------------------------------------------------------- Model Builder
\* The files a build needs, in the order prepareDownloadTasks visits them.
RequiredFiles(b) ==
    LET bd == builders[b].data
        one(bf, dir, name, allow) ==
            [bundleFile |-> bf, filePath |-> Join(dir, name), allowNotFound |-> allow]
        sub(name) == Join(dataPath(b), <<name>>)
    IN <<one(bd.Model, dataPath(b), ModelMoc, FALSE),
         one(bd.Physics, dataPath(b), PhysicsJson, TRUE)>>
       \o [i \in 1..Len(bd.Textures) |->
              one(bd.Textures[i], sub("textures"), bd.Textures[i].FileName, FALSE)]
       \o [i \in 1..Len(bd.Motions) |->
              one(bd.Motions[i], sub("motions"), bd.Motions[i].FileName, FALSE)]
       \o [i \in 1..Len(bd.Expressions) |->
              one(bd.Expressions[i], sub("expressions"), bd.Expressions[i].FileName, FALSE)]

\* Every required file becomes a task, whatever is on the disk.
prepareDownloadTasksNoStat(b, d) ==
    [tasks |-> RequiredFiles(b), existingFiles |-> <<>>]

\* os.Stat + os.IsNotExist on each required file, once.
prepareDownloadTasks(b, d) ==
    LET missing(r) == ~Exists(d, r.filePath)
        present(r) == Exists(d, r.filePath)
        ex == SelectSeq(RequiredFiles(b), present)
    IN [tasks |-> SelectSeq(RequiredFiles(b), missing),
        existingFiles |-> [i \in 1..Len(ex) |-> ex[i].filePath]]

\* A total that leaves the optional physics file out.
totalFilesMandatoryOnly(b) ==
    LET bd == builders[b].data
    IN 1 + Len(bd.Textures) + Len(bd.Motions) + Len(bd.Expressions)

\* initializeDownloadProgress
totalFiles(b) ==
    LET bd == builders[b].data
    IN 1 + 1 + Len(bd.Textures) + Len(bd.Motions) + Len(bd.Expressions)

\* TuiModel.AddDownloadItem
AddDownloadItem(t, name, total) ==
    [t EXCEPT !.Items[name] = [exists |-> TRUE, Total |-> total, Current |-> 0, Err |-> @.Err]]

\* TuiModel.UpdateProgress: nothing once the context is done.
UpdateProgress(t, done, name, current) ==
    IF done \/ ~t.Items[name].exists
    THEN t
    ELSE [t EXCEPT !.Items[name].Current = current]

\* TuiModel.SendError
SendError(t, name, err) == [t EXCEPT !.Items[name].Err = err]

\* TuiModel.SetError
SetError(t, msg) == [t EXCEPT !.ErrorMessage = msg]

RECURSIVE FoldExisting(_, _, _)
FoldExisting(b, m, files) ==
    IF files = <<>>
    THEN m
    ELSE FoldExisting(b,
                      updateModelData(m, Head(files), Rel(builders[b].path, Head(files))),
                      Tail(files))

\* The existing files are counted but not folded into the accumulator.
processExistingFilesCountOnly(b, t, done, files) ==
    [model |-> EmptyModel,
     completedFiles |-> Len(files),
     tui |-> IF files = <<>>
             THEN t
             ELSE UpdateProgress(t, done, builders[b].ModelName, Len(files))]

\* processExistingFiles: the accumulator, the count and the progress shown.
processExistingFiles(b, t, done, files) ==
    [model |-> FoldExisting(b, EmptyModel, files),
     completedFiles |-> Len(files),
     tui |-> IF files = <<>>
             THEN t
             ELSE UpdateProgress(t, done, builders[b].ModelName, Len(files))]

\* createModelData: the document written to model.json.
\* The numbers of the two fixed blocks are kept in hundredths.
Layout ==
    (<<"c", "e", "n", "t", "e", "r", "_", "x">> :> 0)
        @@ (<<"c", "e", "n", "t", "e", "r", "_", "y">> :> 0)
        @@ (<<"w", "i", "d", "t", "h">> :> 200)

HitAreasCustom ==
    (<<"h", "e", "a", "d", "_", "x">> :> <<0 - 25, 100>>)
        @@ (<<"h", "e", "a", "d", "_", "y">> :> <<25, 20>>)
        @@ (<<"b", "o", "d", "y", "_", "x">> :> <<0 - 30, 20>>)
        @@ (<<"b", "o", "d", "y", "_", "y">> :> <<30, 0 - 190>>)

ModelData(m) ==
    [Version |-> "Sample 1.0.0",
     Layout |-> Layout,
     HitAreasCustom |-> HitAreasCustom,
     Model |-> m.Model, Physics |-> m.Physics, Textures |-> m.Textures,
     Motions |-> m.Motions, Expressions |-> m.Expressions]

\* The caller builds one directory with one builder at a time
\* (downloadLive2d runs a new builder per request).
CallerMayStart(b) ==
    \A c \in Builds :
        (c < b /\ builders[c].path = builders[b].path) => pc[c] = "done"

\* Construct() returns without the receive from modelSem.
ReturnNoRelease(b, err) ==
    /\ UNCHANGED modelSem
    /\ pc' = [pc EXCEPT ![b] = "done"]
    /\ ret' = [ret EXCEPT ![b] = err]

\* Construct() returns: the deferred receive from modelSem.
Return(b, err) ==
    /\ modelSem > 0
    /\ modelSem' = modelSem - 1
    /\ pc' = [pc EXCEPT ![b] = "done"]
    /\ ret' = [ret EXCEPT ![b] = err]

\* A gate made with the capacity of the file pool.
modelSemCapDownloads == cfg.MaxConcurrentDownloads

\* NewDownloader: cap(modelSem)
modelSemCap == cfg.MaxConcurrentModels

\* setupDownloadEnvironment: the select takes the send on modelSem.
SetupAcquire(b) ==
    /\ pc[b] = "idle"
    /\ CallerMayStart(b)
    /\ modelSem < modelSemCap
    /\ modelSem' = modelSem + 1
    /\ pc' = [pc EXCEPT ![b] = "mkdir"]
    /\ history' = [history EXCEPT ![b].calledAfterCancel = cancelled]
    /\ UNCHANGED <<globalConfig, call, cacheFiles, app, tuiModel, cfg, builders, cancelled, disk, modelJSON, tui, ret, tasks, existingFiles, sent,
                   taskChan, errorChan, result, delivered, ri, completedFiles, live2dModel, workers>>

\* The directory is made before the select on the gate.
SetupCancelledAfterMkdir(b) ==
    /\ pc[b] = "idle"
    /\ CallerMayStart(b)
    /\ cancelled
    /\ disk' = MkdirAll(disk, dataPath(b))
    /\ pc' = [pc EXCEPT ![b] = "done"]
    /\ ret' = [ret EXCEPT ![b] = ErrCancelled]
    /\ history' = [history EXCEPT ![b].calledAfterCancel = TRUE]
    /\ UNCHANGED <<globalConfig, call, cacheFiles, app, tuiModel, cfg, builders, cancelled, modelSem, modelJSON, tui, tasks, existingFiles, sent,
                   taskChan, errorChan, result, delivered, ri, completedFiles, live2dModel, workers>>

\* setupDownloadEnvironment: the select takes <-ctx.Done().
SetupCancelled(b) ==
    /\ pc[b] = "idle"
    /\ CallerMayStart(b)
    /\ cancelled
    /\ pc' = [pc EXCEPT ![b] = "done"]
    /\ ret' = [ret EXCEPT ![b] = ErrCancelled]
    /\ history' = [history EXCEPT ![b].calledAfterCancel = TRUE]
    /\ UNCHANGED <<globalConfig, call, cacheFiles, app, tuiModel, cfg, builders, cancelled, modelSem, disk, modelJSON, tui, tasks, existingFiles, sent,
                   taskChan, errorChan, result, delivered, ri, completedFiles, live2dModel, workers>>

\* setupDownloadEnvironment: os.MkdirAll(b.dataPath) fails.
SetupMkdirFail(b) ==
    /\ pc[b] = "mkdir"
    /\ tui' = SetError(tui, <<builders[b].ModelName, "mkdir failed">>)
    /\ Return(b, <<"mkdir failed">>)
    /\ UNCHANGED <<globalConfig, call, cacheFiles, app, tuiModel, history, cfg, builders, cancelled, disk, modelJSON, tasks, existingFiles, sent,
                   taskChan, errorChan, result, delivered, ri, completedFiles, live2dModel, workers>>

\* A builder whose Construct() has not started a pool has no goroutines.
NoWorkers == [ranging |-> 0, fetching |-> {}, blocked |-> 0, exited |-> 0]

\* A pool with one goroutine too many.
startWorkerPoolOneMore(n) ==
    [ranging |-> n + 1, fetching |-> {}, blocked |-> 0, exited |-> 0]

\* startWorkerPool: n goroutines, all at the range over taskChan.
\* ranging: workers at the receive from taskChan; fetching: the tasks whose
\* DownloadBundleFile is executing; blocked: workers at the send on
\* errorChan; exited: workers that returned after that send.
startWorkerPool(n) == [ranging |-> n, fetching |-> {}, blocked |-> 0, exited |-> 0]

\* A worker at the range over a closed and empty taskChan: its loop ends
\* and the goroutine returns without touching anything.
RangeOver(b) == taskChan[b].closed /\ taskChan[b].buf = <<>>

\* The directory exists; initializeDownloadProgress, prepareDownloadTasks,
\* processExistingFiles and, when there are tasks, the channels and the
\* worker pool of handleDownloadTasks.
Prepare(b) ==
    /\ pc[b] = "mkdir"
    /\ LET d == MkdirAll(disk, dataPath(b))
           p == prepareDownloadTasks(b, d)
           t == AddDownloadItem(tui, builders[b].ModelName, totalFiles(b))
           e == processExistingFiles(b, t, cancelled, p.existingFiles)
       IN /\ disk' = d
          /\ tui' = e.tui
          /\ tasks' = [tasks EXCEPT ![b] = p.tasks]
          /\ existingFiles' = [existingFiles EXCEPT ![b] = p.existingFiles]
          /\ delivered' = [delivered EXCEPT ![b] = [i \in 1..Len(p.tasks) |-> 0]]
          /\ completedFiles' = [completedFiles EXCEPT ![b] = e.completedFiles]
          /\ live2dModel' = [live2dModel EXCEPT ![b] = e.model]
          /\ result' = [result EXCEPT ![b] = [i \in 1..Len(p.tasks) |-> <<>>]]
          /\ IF Len(p.tasks) = 0
             THEN /\ pc' = [pc EXCEPT ![b] = "manifest"]
                  /\ UNCHANGED workers
             ELSE /\ pc' = [pc EXCEPT ![b] = "send"]
                  /\ workers' = [workers EXCEPT
                                    ![b] = startWorkerPool(cfg.MaxConcurrentDownloads)]
    /\ UNCHANGED <<globalConfig, call, cacheFiles, app, tuiModel, history, cfg, builders, cancelled, modelSem, modelJSON, ret, sent,
                   taskChan, errorChan, ri>>

\* The send loop ends without close(taskChan).
SendTaskNoClose(b) ==
    /\ pc[b] = "send"
    /\ sent[b] < Len(tasks[b])
    /\ Len(taskChan[b].buf) < Len(tasks[b])
    /\ sent' = [sent EXCEPT ![b] = @ + 1]
    /\ taskChan' = [taskChan EXCEPT ![b].buf = Append(@, sent[b] + 1)]
    /\ pc' = [pc EXCEPT ![b] = IF sent[b] + 1 = Len(tasks[b]) THEN "results" ELSE "send"]
    /\ UNCHANGED <<globalConfig, call, cacheFiles, app, tuiModel, history, cfg, builders, cancelled, modelSem, disk, modelJSON, tui, ret, tasks, existingFiles,
                   errorChan, result, delivered, ri, completedFiles, live2dModel, workers>>

\* handleDownloadTasks: one iteration of the send loop takes the send;
\* after the last one the channel is closed.
SendTask(b) ==
    /\ pc[b] = "send"
    /\ sent[b] < Len(tasks[b])
    /\ Len(taskChan[b].buf) < Len(tasks[b])
    /\ sent' = [sent EXCEPT ![b] = @ + 1]
    /\ taskChan' = [taskChan EXCEPT
                       ![b] = [buf |-> Append(@.buf, sent[b] + 1),
                               closed |-> sent[b] + 1 = Len(tasks[b])]]
    /\ pc' = [pc EXCEPT ![b] = IF sent[b] + 1 = Len(tasks[b]) THEN "results" ELSE "send"]
    /\ UNCHANGED <<globalConfig, call, cacheFiles, app, tuiModel, history, cfg, builders, cancelled, modelSem, disk, modelJSON, tui, ret, tasks, existingFiles,
                   errorChan, result, delivered, ri, completedFiles, live2dModel, workers>>

\* handleDownloadTasks: one iteration of the send loop takes <-ctx.Done().
SendCancelled(b) ==
    /\ pc[b] = "send"
    /\ cancelled
    /\ Return(b, ErrCancelled)
    /\ UNCHANGED <<globalConfig, call, cacheFiles, app, tuiModel, history, cfg, builders, cancelled, disk, modelJSON, tui, tasks, existingFiles, sent,
                   taskChan, errorChan, result, delivered, ri, completedFiles, live2dModel, workers>>

\* A receive from whichever task.result is ready, the latest task first.
awaitedAnyReady(b) ==
    LET ready == {i \in (ri[b] + 1)..Len(tasks[b]) : result[b][i] # <<>>}
    IN IF ready = {}
       THEN ri[b] + 1
       ELSE CHOOSE i \in ready : \A j \in ready : j <= i

\* processDownloadResults: the i of "for i := range tasks", the task whose
\* result channel the select receives from.
awaited(b) == ri[b] + 1

\* processDownloadResults: the select takes the outcome of tasks[i].
RecvResult(b) ==
    /\ pc[b] = "results"
    /\ result[b][awaited(b)] # <<>>
    /\ LET i == awaited(b)
           r == Head(result[b][i])
       IN /\ result' = [result EXCEPT ![b][i] = Tail(@)]
          /\ IF r.err # Nil
             THEN /\ tui' = SendError(tui, builders[b].ModelName, r.err)
                  /\ Return(b, r.err)
                  /\ UNCHANGED <<ri, completedFiles, live2dModel>>
             ELSE /\ ri' = [ri EXCEPT ![b] = i]
                  /\ completedFiles' = [completedFiles EXCEPT ![b] = @ + 1]
                  /\ tui' = UpdateProgress(tui, cancelled, builders[b].ModelName,
                                           completedFiles[b] + 1)
                  /\ live2dModel' = [live2dModel EXCEPT
                                        ![b] = updateModelData(@, tasks[b][i].filePath, r.relPath)]
                  /\ pc' = [pc EXCEPT
                               ![b] = IF i = Len(tasks[b]) THEN "manifest" ELSE "results"]
                  /\ UNCHANGED <<modelSem, ret>>
    /\ UNCHANGED <<globalConfig, call, cacheFiles, app, tuiModel, history, cfg, builders, cancelled, disk, modelJSON, tasks, existingFiles, sent,
                   taskChan, errorChan, delivered, workers>>

\* processDownloadResults: the select takes <-ctx.Done().
ResultsCancelled(b) ==
    /\ pc[b] = "results"
    /\ cancelled
    /\ tui' = SendError(tui, builders[b].ModelName, ErrCancelled)
    /\ Return(b, ErrCancelled)
    /\ UNCHANGED <<globalConfig, call, cacheFiles, app, tuiModel, history, cfg, builders, cancelled, disk, modelJSON, tasks, existingFiles, sent,
                   taskChan, errorChan, result, delivered, ri, completedFiles, live2dModel, workers>>

\* createModelData writes model.json.
WriteManifest(b) ==
    /\ pc[b] = "manifest"
    /\ modelJSON' = [modelJSON EXCEPT ![builders[b].path] = <<ModelData(live2dModel[b])>>]
    /\ disk' = [disk EXCEPT !.files = @ \cup {modelJSONPath(b)}]
    /\ history' = [history EXCEPT ![b].manifests = @ + 1]
    /\ Return(b, Nil)
    /\ UNCHANGED <<globalConfig, call, cacheFiles, app, tuiModel, cfg, builders, cancelled, tui, tasks, existingFiles, sent,
                   taskChan, errorChan, result, delivered, ri, completedFiles, live2dModel, workers>>

\* createModelData reports a failure after model.json was written.
WriteManifestFailAfterWrite(b) ==
    /\ pc[b] = "manifest"
    /\ modelJSON' = [modelJSON EXCEPT ![builders[b].path] = <<ModelData(live2dModel[b])>>]
    /\ disk' = [disk EXCEPT !.files = @ \cup {modelJSONPath(b)}]
    /\ history' = [history EXCEPT ![b].manifests = @ + 1]
    /\ Return(b, <<"write model data failed">>)
    /\ UNCHANGED <<globalConfig, call, cacheFiles, app, tuiModel, cfg, builders, cancelled, tui, tasks, existingFiles, sent,
                   taskChan, errorChan, result, delivered, ri, completedFiles, live2dModel, workers>>

\* createModelData: os.WriteFile fails.
WriteManifestFail(b) ==
    /\ pc[b] = "manifest"
    /\ Return(b, <<"write model data failed">>)
    /\ UNCHANGED <<globalConfig, call, cacheFiles, app, tuiModel, history, cfg, builders, cancelled, disk, modelJSON, tui, tasks, existingFiles, sent,
                   taskChan, errorChan, result, delivered, ri, completedFiles, live2dModel, workers>>

\* ---------------------------------------------------------------- Worker Pool
\* A worker receives a task from taskChan and its select takes default:
\* it is about to call DownloadBundleFile.
WorkerFetch(b) ==
    /\ workers[b].ranging > 0
    /\ taskChan[b].buf # <<>>
    /\ ~cancelled
    /\ taskChan' = [taskChan EXCEPT ![b].buf = Tail(@)]
    /\ workers' = [workers EXCEPT ![b].ranging = @ - 1,
                                  ![b].fetching = @ \cup {Head(taskChan[b].buf)}]
    /\ UNCHANGED <<globalConfig, call, cacheFiles, app, tuiModel, history, cfg, builders, cancelled, modelSem, disk, modelJSON, tui, pc, ret, tasks, existingFiles,
                   sent, errorChan, result, delivered, ri, completedFiles, live2dModel>>

\* A worker receives a task from taskChan and its select takes <-ctx.Done():
\* it sends on errorChan (capacity 1, never received from) and returns.
WorkerCancelled(b) ==
    /\ workers[b].ranging > 0
    /\ taskChan[b].buf # <<>>
    /\ cancelled
    /\ taskChan' = [taskChan EXCEPT ![b].buf = Tail(@)]
    /\ IF errorChan[b] < 1
       THEN /\ errorChan' = [errorChan EXCEPT ![b] = @ + 1]
            /\ workers' = [workers EXCEPT ![b].ranging = @ - 1, ![b].exited = @ + 1]
       ELSE /\ workers' = [workers EXCEPT ![b].ranging = @ - 1, ![b].blocked = @ + 1]
            /\ UNCHANGED errorChan
    /\ UNCHANGED <<globalConfig, call, cacheFiles, app, tuiModel, history, cfg, builders, cancelled, modelSem, disk, modelJSON, tui, pc, ret, tasks, existingFiles,
                   sent, result, delivered, ri, completedFiles, live2dModel>>

\* The outcome a worker sends on task.result after DownloadBundleFile.
downloadResult(b, task, err) ==
    IF err # Nil
    THEN [relPath |-> <<>>, err |-> Wrap("download file failed", err)]
    ELSE [relPath |-> Rel(builders[b].path, task.filePath), err |-> Nil]

\* The worker calls DownloadBundleFile, which looks at the context first
\* and then does its work against the response resp; the worker sends the
\* outcome on task.result and goes back to the range over taskChan.
FetchEnd(b, i, resp) ==
    /\ i \in workers[b].fetching
    /\ LET task == tasks[b][i]
           r == DownloadBundleFile(cancelled, disk, resp, task.filePath, task.allowNotFound)
           o == downloadResult(b, task, r.err)
       IN /\ disk' = r.disk
          /\ Len(result[b][i]) < 1
          /\ result' = [result EXCEPT ![b][i] = Append(@, o)]
          /\ delivered' = [delivered EXCEPT ![b][i] = @ + 1]
          /\ history' = [history EXCEPT
                            ![b].arrived = IF o.err # Nil
                                           THEN Append(@, [task |-> i, err |-> o.err])
                                           ELSE @,
                            ![b].requested = IF r.requested THEN @ \cup {i} ELSE @,
                            ![b].reordered =
                                @ \/ \E j \in 1..(i - 1) : delivered[b][j] = 0]
    /\ workers' = [workers EXCEPT ![b].fetching = @ \ {i}, ![b].ranging = @ + 1]
    /\ UNCHANGED <<globalConfig, call, cacheFiles, app, tuiModel, cfg, builders, cancelled, modelSem, modelJSON, tui, pc, ret, tasks,
                   existingFiles, sent, taskChan, errorChan, ri, completedFiles, live2dModel>>

\* Ctrl+C (or Esc in the input state): handleKeyMsg cancels the context.
Cancel ==
    /\ ~cancelled
    /\ cancelled' = TRUE
    /\ UNCHANGED <<globalConfig, call, cacheFiles, app, tuiModel, history, cfg, builders, modelSem, disk, modelJSON, tui, pc, ret, tasks, existingFiles, sent,
                   taskChan, errorChan, result, delivered, ri, completedFiles, live2dModel, workers>>

\* ---------------------------------------------------------------- specification
Name(k) == "m" \o ToString(k)

BundleFile(bundle, fileName) == [BundleName |-> bundle, FileName |-> fileName]

\* GetLive2dData for a model that has a model file and a physics file only.
SmallData(k) ==
    [Model |-> BundleFile(Name(k), <<"buildData", ".asset">>),
     Physics |-> BundleFile(Name(k), PhysicsJson),
     Textures |-> <<>>,
     Motions |-> <<>>,
     Expressions |-> <<>>]

\* GetLive2dData for a model with a texture as well.
TexturedData(k) ==
    [Model |-> BundleFile(Name(k), <<"buildData", ".asset">>),
     Physics |-> BundleFile(Name(k), PhysicsJson),
     Textures |-> <<BundleFile(Name(k), <<"texture_00", ".png">>)>>,
     Motions |-> <<>>,
     Expressions |-> <<>>]

\* GetLive2dData for a model with a texture, a motion and an expression.
FullData(k) ==
    [Model |-> BundleFile(Name(k), <<"buildData", ".asset">>),
     Physics |-> BundleFile(Name(k), PhysicsJson),
     Textures |-> <<BundleFile(Name(k), <<"texture_00", ".png">>)>>,
     Motions |-> <<BundleFile(Name(k), <<"idle01", ".mtn">>)>>,
     Expressions |-> <<BundleFile(Name(k), <<"smile01", ".exp", ".json">>)>>]

\* NewLive2dBuilder(path, buildData, downloader, modelName) for model k.
NewLive2dBuilder(k, data) ==
    [path |-> <<"live2d_download", Sep, Name(k)>>,
     data |-> data,
     ModelName |-> Name(k)]

\* The state before any Construct() call, for builders bs, configuration c,
\* the file system d and the global configuration pointer g.
InitApp(bs, c, d, g) ==
    /\ globalConfig = g
    /\ call = NoCall
    /\ cacheFiles = NoCacheFiles
    /\ app = NoBatch
    /\ tuiModel = NewModel
    /\ cfg = c
    /\ builders = bs
    /\ cancelled = FALSE
    /\ modelSem = 0
    /\ disk = d
    /\ modelJSON = [p \in {bs[b].path : b \in DOMAIN bs} |-> <<>>]
    /\ tui = [Items |-> [n \in {bs[b].ModelName : b \in DOMAIN bs} |->
                            [exists |-> FALSE, Total |-> 0, Current |-> 0, Err |-> Nil]],
              ErrorMessage |-> <<>>]
    /\ pc = [b \in DOMAIN bs |-> "idle"]
    /\ ret = [b \in DOMAIN bs |-> Nil]
    /\ tasks = [b \in DOMAIN bs |-> <<>>]
    /\ existingFiles = [b \in DOMAIN bs |-> <<>>]
    /\ sent = [b \in DOMAIN bs |-> 0]
    /\ taskChan = [b \in DOMAIN bs |-> [buf |-> <<>>, closed |-> FALSE]]
    /\ errorChan = [b \in DOMAIN bs |-> 0]
    /\ result = [b \in DOMAIN bs |-> <<>>]
    /\ delivered = [b \in DOMAIN bs |-> <<>>]
    /\ ri = [b \in DOMAIN bs |-> 0]
    /\ completedFiles = [b \in DOMAIN bs |-> 0]
    /\ live2dModel = [b \in DOMAIN bs |-> EmptyModel]
    /\ workers = [b \in DOMAIN bs |-> NoWorkers]
    /\ history = [b \in DOMAIN bs |->
                      [arrived |-> <<>>, requested |-> {}, manifests |-> 0,
                       calledAfterCancel |-> FALSE, reordered |-> FALSE]]

\* main has run config.Init() and the downloader holds the configuration.
InitOn(bs, c, d) == InitApp(bs, c, d, <<c>>)

InitWith(bs, c) == InitOn(bs, c, EmptyDisk)

Config == [MaxConcurrentDownloads |-> ConfDownloads, MaxConcurrentModels |-> ConfModels]

\* Two models are built at once, each into its own directory: the first
\* has more files than there are workers, the second has not.
Init ==
    InitWith([b \in {1, 2} |->
                 NewLive2dBuilder(b, IF b = 1 THEN TexturedData(b) ELSE SmallData(b))],
             Config)

\* One model is built, and then built again by a fresh builder.
InitResume ==
    InitWith([b \in {1, 2} |-> NewLive2dBuilder(1, TexturedData(1))],
             [Config EXCEPT !.MaxConcurrentDownloads = 1])

\* The file system after an earlier build of builder b fetched every file
\* (and failed to write model.json, or the user removed it).
DownloadedDisk(bs, b) ==
    LET paths == {Join(Join(bs[b].path, <<"data">>), ModelMoc),
                  Join(Join(bs[b].path, <<"data">>), PhysicsJson)}
                 \cup {Join(Join(Join(bs[b].path, <<"data">>), <<"textures">>),
                            bs[b].data.Textures[i].FileName) :
                           i \in 1..Len(bs[b].data.Textures)}
                 \cup {Join(Join(Join(bs[b].path, <<"data">>), <<"motions">>),
                            bs[b].data.Motions[i].FileName) :
                           i \in 1..Len(bs[b].data.Motions)}
                 \cup {Join(Join(Join(bs[b].path, <<"data">>), <<"expressions">>),
                            bs[b].data.Expressions[i].FileName) :
                           i \in 1..Len(bs[b].data.Expressions)}
    IN [files |-> paths,
        dirs |-> UNION {Ancestors(p) : p \in paths},
        partial |-> {}]

\* GetLive2dData for a model with three textures.
ThreeTextureData(k) ==
    [Model |-> BundleFile(Name(k), <<"buildData", ".asset">>),
     Physics |-> BundleFile(Name(k), PhysicsJson),
     Textures |-> <<BundleFile(Name(k), <<"texture_00", ".png">>),
                    BundleFile(Name(k), <<"texture_01", ".png">>),
                    BundleFile(Name(k), <<"texture_02", ".png">>)>>,
     Motions |-> <<>>,
     Expressions |-> <<>>]

\* The file system d and, from an earlier build of builder b that failed,
\* its model file, its physics file and the second of its textures.
PartlyDownloadedDisk(bs, b, d) ==
    LET data == Join(bs[b].path, <<"data">>)
        paths == {Join(data, ModelMoc), Join(data, PhysicsJson),
                  Join(Join(data, <<"textures">>), bs[b].data.Textures[2].FileName)}
    IN [files |-> d.files \cup paths,
        dirs |-> d.dirs \cup UNION {Ancestors(p) : p \in paths},
        partial |-> d.partial]

\* Two models are built at once; every file of the first is on the disk
\* already, of the second all but its first and its third texture.
InitPresent ==
    LET bs == [b \in {1, 2} |->
                  NewLive2dBuilder(b, IF b = 1 THEN FullData(b) ELSE ThreeTextureData(b))]
    IN InitOn(bs, Config, PartlyDownloadedDisk(bs, 2, DownloadedDisk(bs, 1)))

Next ==
    \/ Cancel
    \/ \E b \in Builds : SetupAcquire(b)
    \/ \E b \in Builds : SetupCancelled(b)
    \/ \E b \in Builds : SetupMkdirFail(b)
    \/ \E b \in Builds : Prepare(b)
    \/ \E b \in Builds : SendTask(b)
    \/ \E b \in Builds : SendCancelled(b)
    \/ \E b \in Builds : RecvResult(b)
    \/ \E b \in Builds : ResultsCancelled(b)
    \/ \E b \in Builds : WriteManifest(b)
    \/ \E b \in Builds : WriteManifestFail(b)
    \/ \E b \in Builds : WorkerFetch(b)
    \/ \E b \in Builds : WorkerCancelled(b)
    \/ \E b \in Builds : \E i \in workers[b].fetching : \E resp \in Responses :
           FetchEnd(b, i, resp)

Spec == Init /\ [][Next]_vars

SpecResume == InitResume /\ [][Next]_vars

SpecPresent == InitPresent /\ [][Next]_vars

\* The steps of the builders, of their workers and of the remote host:
\* every step but the user's cancellation.
Progress ==
    \/ \E b \in Builds : SetupAcquire(b)
    \/ \E b \in Builds : SetupCancelled(b)
    \/ \E b \in Builds : SetupMkdirFail(b)
    \/ \E b \in Builds : Prepare(b)
    \/ \E b \in Builds : SendTask(b)
    \/ \E b \in Builds : SendCancelled(b)
    \/ \E b \in Builds : RecvResult(b)
    \/ \E b \in Builds : ResultsCancelled(b)
    \/ \E b \in Builds : WriteManifest(b)
    \/ \E b \in Builds : WriteManifestFail(b)
    \/ \E b \in Builds : WorkerFetch(b)
    \/ \E b \in Builds : WorkerCancelled(b)
    \/ \E b \in Builds : \E i \in workers[b].fetching : \E resp \in Responses :
           FetchEnd(b, i, resp)

\* The Go scheduler runs every goroutine that can take a step and every
\* HTTP request ends (the client has a timeout): a step that stays possible
\* is taken.  Nothing obliges the user to cancel.
SpecFair == Init /\ [][Next]_vars /\ WF_vars(Progress)

\* ---------------------------------------------------------------- configuration
\* DefaultConfig(): the fields the model reads.
DefaultConfig ==
    [Live2dSavePath |-> <<"live2d_download">>,
     CharaCachePath |-> <<"live2d_chara_cache">>,
     UseCharaCache |-> TRUE,
     MaxConcurrentDownloads |-> 20,
     MaxConcurrentModels |-> 3]

\* config.Init(): the new value of globalConfig.
configInit == <<DefaultConfig>>

\* A Get() that returns globalConfig as it is.
configGetNoInit(g) == [globalConfig |-> g, out |-> g]

\* config.Get(): the pointer returned and the new value of globalConfig.
configGet(g) ==
    LET h == IF g = <<>> THEN configInit ELSE g
    IN [globalConfig |-> h, out |-> h]

CallConfigInit ==
    /\ globalConfig' = configInit
    /\ call' = [op |-> "Init"]
    /\ UNCHANGED <<cfg, cacheFiles, app, tuiModel, buildVars>>

CallConfigGet ==
    LET r == configGet(globalConfig)
    IN /\ globalConfig' = r.globalConfig
       /\ call' = [op |-> "Get", before |-> globalConfig, out |-> r.out]
       /\ UNCHANGED <<cfg, cacheFiles, app, tuiModel, buildVars>>

\* NewDownloader: cfg := config.Get(); the gate is made with
\* cfg.MaxConcurrentModels (a nil cfg would panic).
CallNewDownloader ==
    LET r == configGet(globalConfig)
    IN /\ r.out # <<>>
       /\ globalConfig' = r.globalConfig
       /\ cfg' = Head(r.out)
       /\ call' = [op |-> "NewDownloader", before |-> globalConfig]
       /\ UNCHANGED <<cacheFiles, app, tuiModel, buildVars>>

\* ---------------------------------------------------------------- save path
\* A string whose characters matter is the sequence of its characters.
DigitChars == <<"0", "1", "2", "3", "4", "5", "6", "7", "8", "9">>

UpperChars ==
    <<"A", "B", "C", "D", "E", "F", "G", "H", "I", "J", "K", "L", "M",
      "N", "O", "P", "Q", "R", "S", "T", "U", "V", "W", "X", "Y", "Z">>

LowerChars ==
    <<"a", "b", "c", "d", "e", "f", "g", "h", "i", "j", "k", "l", "m",
      "n", "o", "p", "q", "r", "s", "t", "u", "v", "w", "x", "y", "z">>

IsDigit(ch) == \E d \in 1..Len(DigitChars) : DigitChars[d] = ch

DigitVal(ch) == (CHOOSE d \in 1..Len(DigitChars) : DigitChars[d] = ch) - 1

\* strings.ToLower
ToLower(s) ==
    [i \in 1..Len(s) |->
        IF \E k \in 1..Len(UpperChars) : UpperChars[k] = s[i]
        THEN LowerChars[CHOOSE k \in 1..Len(UpperChars) : UpperChars[k] = s[i]]
        ELSE s[i]]

SplitPartsCount == 2

\* strings.SplitN(s, "_", SplitPartsCount)
SplitN(s) ==
    IF \E i \in 1..Len(s) : s[i] = "_"
    THEN LET k == CHOOSE i \in 1..Len(s) :
                      s[i] = "_" /\ \A j \in 1..(i - 1) : s[j] # "_"
         IN <<SubSeq(s, 1, k - 1), SubSeq(s, k + 1, Len(s))>>
    ELSE <<s>>

RECURSIVE DigitsVal(_)
DigitsVal(s) ==
    IF s = <<>> THEN 0 ELSE 10 * DigitsVal(SubSeq(s, 1, Len(s) - 1)) + DigitVal(s[Len(s)])

\* strconv.Atoi: an optional sign and at least one digit.
Atoi(s) ==
    LET signed == s # <<>> /\ s[1] \in {"+", "-"}
        digits == IF signed THEN Tail(s) ELSE s
    IN IF digits = <<>> \/ \E i \in 1..Len(digits) : ~IsDigit(digits[i])
       THEN [n |-> 0, err |-> <<"invalid syntax">>]
       ELSE [n |-> IF signed /\ s[1] = "-" THEN 0 - DigitsVal(digits) ELSE DigitsVal(digits),
             err |-> Nil]

RECURSIVE Digits(_)
Digits(n) ==
    IF n < 10 THEN <<DigitChars[n + 1]>> ELSE Digits(n \div 10) \o <<DigitChars[(n % 10) + 1]>>

RECURSIVE ZeroPad(_, _)
ZeroPad(s, width) == IF Len(s) >= width THEN s ELSE ZeroPad(<<"0">> \o s, width)

\* fmt.Sprintf("chara_%03d", charaID): the sign counts in the width.
CharaDirName(charaID) ==
    <<"c", "h", "a", "r", "a", "_">> \o
        (IF charaID < 0
         THEN <<"-">> \o ZeroPad(Digits(0 - charaID), 2)
         ELSE ZeroPad(Digits(charaID), 3))

\* filepath.Join of names without separators or dots: empty names are
\* skipped.
RECURSIVE FilepathJoin(_)
FilepathJoin(elems) ==
    IF elems = <<>> THEN <<>>
    ELSE LET rest == FilepathJoin(Tail(elems))
         IN IF Head(elems) = <<>> THEN rest
            ELSE IF rest = <<>> THEN Head(elems)
            ELSE Join(Head(elems), rest)

\* App.getLive2dPath(live2dName): the path and the error returned, or a
\* panic; the cache files and globalConfig afterwards.
getLive2dPath(c, g, files, resp, io, live2dName) ==
    LET parts == SplitN(live2dName)
        a == Atoi(parts[1])
        r == GetChara(c, files, resp, a.n, io)
        conf == configGet(g)
        savePath == Head(conf.out).Live2dSavePath
        chara == IF r.data = <<>> THEN [firstName |-> JNil] ELSE Head(r.data)
        byID == FilepathJoin(<<savePath, CharaDirName(a.n), parts[2]>>)
    IN IF Len(parts) # SplitPartsCount
       THEN [path |-> <<>>, err |-> <<"invalid Live2D name format">>, panic |-> FALSE,
             files |-> files, globalConfig |-> g]
       ELSE IF a.err # Nil
       THEN [path |-> <<>>, err |-> Wrap("invalid character ID", a.err), panic |-> FALSE,
             files |-> files, globalConfig |-> g]
       ELSE IF r.err # Nil
       THEN [path |-> byID, err |-> Nil, panic |-> FALSE,
             files |-> r.files, globalConfig |-> conf.globalConfig]
       ELSE IF chara.firstName.t # "[]any"
       THEN [path |-> <<>>, err |-> Nil, panic |-> TRUE,
             files |-> r.files, globalConfig |-> g]
       ELSE IF Len(chara.firstName.l) < 2
       THEN [path |-> <<>>, err |-> Nil, panic |-> TRUE,
             files |-> r.files, globalConfig |-> g]
       ELSE IF chara.firstName.l[2].t # "string"
       THEN [path |-> byID, err |-> Nil, panic |-> FALSE,
             files |-> r.files, globalConfig |-> conf.globalConfig]
       ELSE [path |-> FilepathJoin(<<savePath, ToLower(chara.firstName.l[2].s), parts[2]>>),
             err |-> Nil, panic |-> FALSE,
             files |-> r.files, globalConfig |-> conf.globalConfig]

\* The names of models asked for: of character 36, written with or without
\* a leading zero, with one more "_" or none, and names that are not the
\* number of a character followed by "_".
Live2dNames ==
    {<<"0", "3", "6", "_", "l", "i", "v", "e">>,
     <<"3", "6", "_", "a", "_", "b">>,
     <<"3", "6", "_">>,
     <<"3", "6">>,
     <<"x", "_", "a">>}

\* What has become of the first name of the character record fetched.
FirstNameState(r) ==
    IF r.err # Nil THEN "not fetched"
    ELSE IF r.data = <<>> \/ Head(r.data).firstName.t = "nil" THEN "missing"
    ELSE IF Head(r.data).firstName.t # "[]any" THEN "not a list"
    ELSE IF Len(Head(r.data).firstName.l) < 2 THEN "too short"
    ELSE IF Head(r.data).firstName.l[2].t # "string" THEN "not a string"
    ELSE "string"

CallGetLive2dPath ==
    \E c \in Clients, resp \in APIResponses, io \in CacheIO, name \in Live2dNames :
        \E r \in {getLive2dPath(c, globalConfig, cacheFiles, resp, io, name)},
           parts \in {SplitN(name)} :
        LET wellFormed == Len(parts) = SplitPartsCount /\ Atoi(parts[1]).err = Nil
        IN /\ cacheFiles' = r.files
           /\ globalConfig' = r.globalConfig
           /\ call' = [op |-> "getLive2dPath", live2dName |-> name,
                       wellFormed |-> wellFormed,
                       firstName |->
                           IF wellFormed
                           THEN FirstNameState(GetChara(c, cacheFiles, resp,
                                                        Atoi(parts[1]).n, io))
                           ELSE "not fetched",
                       path |-> r.path, err |-> r.err, panic |-> r.panic]
           /\ UNCHANGED <<cfg, app, tuiModel, buildVars>>

\* ---------------------------------------------------------------- serialisation
\* The output of json.MarshalIndent is the sequence of its tokens (the
\* indentation, which depends on the nesting only, is left out).
Quote == "\""

\* The characters of map keys in byte order.
Alphabet == DigitChars \o UpperChars \o <<"_">> \o LowerChars

CharRank(ch) == CHOOSE i \in 1..Len(Alphabet) : Alphabet[i] = ch

\* a < b for strings, as Go compares them.
RECURSIVE KeyLess(_, _)
KeyLess(a, b) ==
    IF b = <<>> THEN FALSE
    ELSE IF a = <<>> THEN TRUE
    ELSE IF a[1] = b[1] THEN KeyLess(Tail(a), Tail(b))
    ELSE CharRank(a[1]) < CharRank(b[1])

RECURSIVE Enumerate(_)
Enumerate(S) ==
    IF S = {} THEN <<>>
    ELSE LET k == CHOOSE x \in S : TRUE IN <<k>> \o Enumerate(S \ {k})

\* The keys of a map in the order one iteration yields them: Go starts
\* each iteration at an offset it picks at random.
mapRange(S, seed) ==
    LET base == Enumerate(S)
        n == Len(base)
    IN [i \in 1..n |-> base[((i - 1 + seed) % n) + 1]]

\* The keys are written in the order of the iteration.
sortKeysNot(keys) == keys

\* encoding/json sorts the keys of a map before it writes them.
RECURSIVE sortKeys(_)
sortKeys(keys) ==
    IF keys = <<>> THEN <<>>
    ELSE LET i == CHOOSE j \in 1..Len(keys) :
                      \A k \in 1..Len(keys) : k # j => KeyLess(keys[j], keys[k])
         IN <<keys[i]>> \o
            sortKeys(SubSeq(keys, 1, i - 1) \o SubSeq(keys, i + 1, Len(keys)))

RECURSIVE Commas(_)
Commas(items) ==
    IF items = <<>> THEN <<>>
    ELSE IF Len(items) = 1 THEN items[1]
    ELSE items[1] \o <<",">> \o Commas(Tail(items))

encString(str) == <<Quote>> \o str \o <<Quote>>

\* strconv.FormatFloat(f, 'f', -1, 64) of h hundredths.
FormatFloat(h) ==
    LET abs == IF h < 0 THEN 0 - h ELSE h
        frac == abs % 100
    IN (IF h < 0 THEN <<"-">> ELSE <<>>) \o Digits(abs \div 100) \o
       (IF frac = 0 THEN <<>>
        ELSE IF frac % 10 = 0 THEN <<".", DigitChars[(frac \div 10) + 1]>>
        ELSE <<".", DigitChars[(frac \div 10) + 1], DigitChars[(frac % 10) + 1]>>)

encField(name, val) == <<Quote, name, Quote, ":">> \o val

encObject(fields) == <<"{">> \o Commas(fields) \o <<"}">>

\* A nil slice is written as null.
encStrings(l) ==
    IF l = <<>> THEN <<"null">>
    ELSE <<"[">> \o Commas([i \in 1..Len(l) |-> encString(l[i])]) \o <<"]">>

encFloats(l) == <<"[">> \o Commas([i \in 1..Len(l) |-> FormatFloat(l[i])]) \o <<"]">>

encMotionFiles(l) ==
    <<"[">> \o Commas([i \in 1..Len(l) |->
                          encObject(<<encField("file", encString(l[i].File))>>)])
           \o <<"]">>

encExpressions(l) ==
    IF l = <<>> THEN <<"null">>
    ELSE <<"[">> \o Commas([i \in 1..Len(l) |->
                               encObject(<<encField("name", encString(l[i].Name)),
                                           encField("file", encString(l[i].File))>>)])
                \o <<"]">>

\* A map whose values are encoded already.
encMap(vals, seed) ==
    LET keys == sortKeys(mapRange(DOMAIN vals, seed))
    IN encObject([i \in 1..Len(keys) |->
                     encString(keys[i]) \o <<":">> \o vals[keys[i]]])

\* json.MarshalIndent(modelData, "", "  "): the fields of model.Data in
\* the order of their declaration.
MarshalIndent(data, seed) ==
    encObject(
        <<encField("version", encString(<<data.Version>>)),
          encField("layout",
                   encMap([k \in DOMAIN data.Layout |-> FormatFloat(data.Layout[k])], seed)),
          encField("hit_areas_custom",
                   encMap([k \in DOMAIN data.HitAreasCustom |->
                              encFloats(data.HitAreasCustom[k])], seed)),
          encField("model", encString(data.Model)),
          encField("physics", encString(data.Physics)),
          encField("textures", encStrings(data.Textures)),
          encField("motions",
                   encMap([k \in DOMAIN data.Motions |-> encMotionFiles(data.Motions[k])],
                          seed)),
          encField("expressions", encExpressions(data.Expressions))>>)

\* The offsets a map iteration may start at.
MaxSeed == 3

Seeds == 0..MaxSeed

\* Files of a model directory whose motions are called a, ab and B.
SerialPath == <<"live2d">>

SerialFile(dir, name) == Join(Join(Join(SerialPath, <<"data">>), <<dir>>), name)

SerialFileLists ==
    {<<>>,
     <<Join(Join(SerialPath, <<"data">>), ModelMoc),
       SerialFile("textures", <<"t", ".png">>),
       SerialFile("motions", <<"a", "b", ".mtn">>),
       SerialFile("motions", <<"B", ".mtn">>),
       SerialFile("motions", <<"a", ".mtn">>),
       SerialFile("expressions", <<"e", ".exp", ".json">>)>>,
     <<SerialFile("motions", <<"a", ".mtn">>),
       SerialFile("motions", <<"a", "b", ".mtn">>)>>,
     <<Join(Join(SerialPath, <<"data">>), PhysicsJson),
       SerialFile("textures", <<"t", ".png">>),
       SerialFile("textures", <<"s", ".png">>)>>}

\* b.model after updateModelData has been applied to each file of a list.
RECURSIVE Accumulate(_, _)
Accumulate(m, files) ==
    IF files = <<>> THEN m
    ELSE Accumulate(updateModelData(m, Head(files), Rel(SerialPath, Head(files))),
                    Tail(files))

\* Two builders whose accumulators have the same contents serialise the
\* manifest, each with its own map iterations.
CallCreateModelData ==
    \E files \in SerialFileLists, seed1 \in Seeds, seed2 \in Seeds :
        LET m == Accumulate(EmptyModel, files)
        IN /\ call' = [op |-> "createModelData", model |-> m,
                       seed1 |-> seed1, seed2 |-> seed2,
                       out1 |-> MarshalIndent(ModelData(m), seed1),
                       out2 |-> MarshalIndent(ModelData(m), seed2)]
           /\ UNCHANGED <<cfg, globalConfig, cacheFiles, app, tuiModel, buildVars>>

\* A call of FetchData by a client, with a cache name or without one.
CallFetchData ==
    \E c \in Clients, resp \in APIResponses, cache \in CacheNames \cup {<<>>},
       io \in CacheIO :
        \E r \in {FetchData(c, cacheFiles, resp, cache, io)} :
           /\ cacheFiles' = r.files
           /\ call' = [op |-> "FetchData", useCharaCache |-> c.useCharaCache,
                       cache |-> cache, data |-> r.data, err |-> r.err]
           /\ UNCHANGED <<cfg, globalConfig, app, tuiModel, buildVars>>

\* cacheDuration has passed since a cache file was written.
CacheExpires ==
    \E n \in CacheNames :
        /\ cacheFiles[n].exists
        /\ cacheFiles[n].fresh
        /\ cacheFiles' = [cacheFiles EXCEPT ![n].fresh = FALSE]
        /\ call' = NoCall
        /\ UNCHANGED <<cfg, globalConfig, app, tuiModel, buildVars>>

\* The user removes a cache file.
CacheRemoved ==
    \E n \in CacheNames :
        /\ cacheFiles[n].exists
        /\ cacheFiles' = [cacheFiles EXCEPT ![n] = NoFile]
        /\ call' = NoCall
        /\ UNCHANGED <<cfg, globalConfig, app, tuiModel, buildVars>>

\* ---------------------------------------------------------------- calls
\* The process has started and nothing has run yet: no configuration, no
\* builder.
InitCalls == InitApp(<<>>, Config, EmptyDisk, <<>>)

NextCalls ==
    \/ CallConfigInit
    \/ CallConfigGet
    \/ CallNewDownloader
    \/ CallFetchData
    \/ CallGetLive2dPath
    \/ CacheExpires
    \/ CacheRemoved

SpecCalls == InitCalls /\ [][NextCalls]_vars

\* The manifest is serialised by builders of a downloader that was made
\* with the configuration.
NextSerial ==
    \/ CallConfigInit
    \/ CallConfigGet
    \/ CallNewDownloader
    \/ CallCreateModelData

SpecSerial == InitCalls /\ [][NextSerial]_vars

\* ---------------------------------------------------------------- folding
\* The save paths of models.
FoldPaths ==
    {<<"live2d_download", Sep, "kasumi", Sep, "036_live">>,
     <<"my_", "textures", Sep, "kasumi", Sep, "036_live">>}

\* The file names a manifest has for its textures, motions and expressions.
FoldNames ==
    [texture |-> {<<"texture_00", ".png">>},
     motion |-> {<<"idle", ".mtn">>, <<"idle", ".mtn", ".json">>},
     expression |-> {<<"smile", ".exp", ".json">>, <<"e", "motions", ".exp", ".json">>}]

\* The folds one builder makes.
MaxFolds == 3

\* prepareDownloadTasks: the path of the file of a manifest entry.
RequiredPath(path, category, name) ==
    LET data == Join(path, <<"data">>)
    IN IF category = "model" THEN Join(data, ModelMoc)
       ELSE IF category = "physics" THEN Join(data, PhysicsJson)
       ELSE IF category = "texture" THEN Join(Join(data, <<"textures">>), name)
       ELSE IF category = "motion" THEN Join(Join(data, <<"motions">>), name)
       ELSE Join(Join(data, <<"expressions">>), name)

\* A builder is made for a save path.
CallNewLive2dBuilder ==
    \E path \in FoldPaths :
        /\ call' = [op |-> "NewLive2dBuilder", path |-> path, model |-> EmptyModel,
                    folds |-> 0]
        /\ UNCHANGED <<cfg, globalConfig, cacheFiles, app, tuiModel, buildVars>>

\* The builder folds the file of one entry of its manifest, found on the
\* disk or fetched.
CallUpdateModelData ==
    /\ call.op \in {"NewLive2dBuilder", "updateModelData"}
    /\ call.folds < MaxFolds
    /\ \E category \in {"model", "physics", "texture", "motion", "expression"} :
          \E name \in (IF category \in {"model", "physics"}
                        THEN {<<>>} ELSE FoldNames[category]) :
            \E filePath \in {RequiredPath(call.path, category, name)} :
                /\ call' = [op |-> "updateModelData", path |-> call.path,
                            before |-> call.model,
                            category |-> category, filePath |-> filePath,
                            relPath |-> Rel(call.path, filePath),
                            model |-> updateModelData(call.model, filePath,
                                                      Rel(call.path, filePath)),
                            folds |-> call.folds + 1]
                /\ UNCHANGED <<cfg, globalConfig, cacheFiles, app, tuiModel, buildVars>>

NextFold ==
    \/ CallNewLive2dBuilder
    \/ CallUpdateModelData

SpecFold == InitCalls /\ [][NextFold]_vars

\* ---------------------------------------------------------------- batch download
\* MaxConcurrentModels of the configuration a batch runs with.
BatchModels == 2

BatchConfig == [MaxConcurrentDownloads |-> ConfDownloads, MaxConcurrentModels |-> BatchModels]

\* main has run config.Init(); no handler has been called.
InitBatch == InitApp(<<>>, BatchConfig, EmptyDisk, <<BatchConfig>>)

\* What the user may have selected in the list.
Selections == {<<>>, <<"m1">>, <<"m1", "m2", "m3">>}

ErrDownloadCancelled == <<"download cancelled">>

\* The errors GetLive2dData and Construct() may give downloadLive2d; the
\* cancelled error of Construct() needs the context of the TUI to be done.
Live2dDataErrors == {Nil, <<"HTTP error", "404">>}

ConstructErrors(ctxDone) ==
    {Nil, <<"download file failed", "http status error", "404">>}
        \cup (IF ctxDone THEN {ErrCancelled} ELSE {})

\* App.downloadLive2d: the error it returns, given those of its calls.
downloadLive2d(dataErr, pathErr, constructErr) ==
    IF dataErr # Nil THEN Wrap("get Live2D data failed", dataErr)
    ELSE IF pathErr # Nil THEN pathErr
    ELSE IF constructErr # Nil THEN Wrap("build Live2D model failed", constructErr)
    ELSE Nil

\* One more goroutine than MaxConcurrentModels may run.
batchSemCapOneMore == Head(configGet(globalConfig).out).MaxConcurrentModels + 1

\* handleBatchDownload: cap(modelSem)
batchSemCap == Head(configGet(globalConfig).out).MaxConcurrentModels

\* Every error is sent on errChan.
isCancelledErrorAny(err) == err # Nil

\* err.Error() == ErrDownloadCancelled
isCancelledError(err) == err = ErrDownloadCancelled

\* The goroutines of a batch that are between their launch and the
\* release of their slot.
BatchRunning == {k \in DOMAIN app.g : app.g[k] \in {"started", "sending", "writing"}}

\* What the user may type to download a model directly.
DirectInputs == {<<"036_live">>, <<"036_live", "_rip">>}

\* strings.TrimSuffix(input, "_rip")
TrimRip(input) ==
    IF HasSuffix(input, <<"_rip">>) THEN SubSeq(input, 1, Len(input) - 1) ELSE input

\* Run receives the name of a model and calls handleDirectDownload: the
\* item is added, the state set, downloadLive2d called; a cancelled
\* download returns false, any other error is shown and returns true.
HandleDirectDownload ==
    /\ app.pc = "idle"
    /\ \E input \in DirectInputs, dataErr \in Live2dDataErrors,
          constructErr \in ConstructErrors(cancelled) :
          LET err == downloadLive2d(dataErr, Nil, constructErr)
              name == TrimRip(input)
              shown == err # Nil /\ ~isCancelledError(err)
          IN /\ app' = [NoBatch EXCEPT
                           !.handler = "direct", !.input = name, !.pc = "returned",
                           !.ret = IF err # Nil /\ isCancelledError(err)
                                   THEN "false" ELSE "true",
                           !.err = <<err>>,
                           !.constructErr = <<IF dataErr = Nil THEN constructErr ELSE Nil>>,
                           !.attempts = <<1>>, !.g = <<"finished">>]
             /\ tuiModel' = [tuiModel EXCEPT
                                !.Items = @ \cup {name},
                                !.State = IF shown THEN StateInput ELSE StateDownloading,
                                !.ErrorMessage = IF shown
                                                 THEN Wrap("download failed", err) ELSE @]
    /\ UNCHANGED <<cfg, globalConfig, call, cacheFiles, buildVars>>

\* Run receives a selection and calls handleBatchDownload.
HandleBatchDownload ==
    /\ app.pc = "idle"
    /\ \E sel \in Selections :
          app' = [NoBatch EXCEPT
                     !.handler = "batch",
                     !.pc = IF sel = <<>> THEN "returned" ELSE "loop",
                     !.ret = IF sel = <<>> THEN "true" ELSE "none",
                     !.selectedItems = sel,
                     !.g = [k \in 1..Len(sel) |-> "none"],
                     !.err = [k \in 1..Len(sel) |-> Nil],
                     !.constructErr = [k \in 1..Len(sel) |-> Nil],
                     !.attempts = [k \in 1..Len(sel) |-> 0]]
    /\ UNCHANGED <<cfg, globalConfig, call, cacheFiles, tuiModel, buildVars>>

\* One iteration of "for _, costume := range selectedItems": the select
\* takes a case that is ready, the default case when none is; the default
\* case sends on modelSem and launches the goroutine of the item.  When a
\* case returns, handleCancelledDownloads has read completed.
BatchLoop ==
    /\ app.pc = "loop"
    /\ ~app.crashed
    /\ LET ready == (IF app.ctxDone THEN {"ctx"} ELSE {})
                        \cup (IF app.errChan # <<>> THEN {"err"} ELSE {})
           next == IF app.i = Len(app.selectedItems) THEN "drain" ELSE "loop"
           writing == \E k \in DOMAIN app.g : app.g[k] = "writing"
       IN IF ready # {}
          THEN \E c \in ready :
                  IF c = "ctx" \/ isCancelledError(Head(app.errChan))
                  THEN app' = [app EXCEPT !.pc = "returned", !.ret = "false",
                                          !.errChan = IF c = "err" THEN Tail(@) ELSE @,
                                          !.raced = @ \/ writing]
                  ELSE app' = [app EXCEPT !.errChan = Tail(@), !.i = @ + 1, !.pc = next]
          ELSE /\ app.modelSem < batchSemCap
               /\ app' = [app EXCEPT !.modelSem = @ + 1, !.g[app.i] = "started",
                                      !.i = @ + 1, !.pc = next,
                                      !.peak = IF Cardinality(BatchRunning) + 1 > @
                                               THEN Cardinality(BatchRunning) + 1 ELSE @]
    /\ UNCHANGED <<cfg, globalConfig, call, cacheFiles, tuiModel, buildVars>>

\* downloadModel of item k: downloadLive2d returns.  An error that is the
\* cancelled one is to be sent on errChan, any other is logged and the
\* goroutine ends, releasing its slot; without error the goroutine goes on
\* to write completed[costume].
DownloadModel(k) ==
    /\ app.pc # "idle"
    /\ ~app.crashed
    /\ app.g[k] = "started"
    /\ \E dataErr \in Live2dDataErrors, constructErr \in ConstructErrors(cancelled) :
          LET err == downloadLive2d(dataErr, Nil, constructErr)
          IN app' = [app EXCEPT
                        !.attempts[k] = @ + 1,
                        !.err[k] = err,
                        !.constructErr[k] = IF dataErr = Nil THEN constructErr ELSE Nil,
                        !.g[k] = IF err = Nil THEN "writing"
                                 ELSE IF isCancelledError(err) THEN "sending"
                                 ELSE "finished",
                        !.modelSem = IF err # Nil /\ ~isCancelledError(err)
                                     THEN @ - 1 ELSE @]
    /\ UNCHANGED <<cfg, globalConfig, call, cacheFiles, tuiModel, buildVars>>

\* downloadModel of item k ends: the send on errChan (which has room for
\* one error) or the write of completed[costume], then the deferred
\* release of the slot.  A write while another goroutine is writing the map
\* is a data race: the runtime may stop the program (concurrent map
\* writes) or not.
DownloadModelEnd(k) ==
    /\ app.pc # "idle"
    /\ ~app.crashed
    /\ app.g[k] \in {"sending", "writing"}
    /\ IF app.g[k] = "sending"
       THEN /\ Len(app.errChan) < 1
            /\ app' = [app EXCEPT !.errChan = Append(@, app.err[k]),
                                   !.sent = @ \cup {k},
                                   !.g[k] = "finished", !.modelSem = @ - 1]
       ELSE LET race == \E j \in DOMAIN app.g : j # k /\ app.g[j] = "writing"
            IN \E crash \in (IF race THEN {TRUE, FALSE} ELSE {FALSE}) :
                  app' = [app EXCEPT !.completed = @ \cup {app.selectedItems[k]},
                                     !.g[k] = "finished", !.modelSem = @ - 1,
                                     !.raced = @ \/ race, !.crashed = crash]
    /\ UNCHANGED <<cfg, globalConfig, call, cacheFiles, tuiModel, buildVars>>

\* "for range cap(modelSem) { modelSem <- struct{}{} }", one send; after
\* the last one handleBatchDownload returns true.
BatchDrain ==
    /\ app.pc = "drain"
    /\ ~app.crashed
    /\ app.modelSem < batchSemCap
    /\ app' = [app EXCEPT !.modelSem = @ + 1, !.drained = @ + 1,
                           !.pc = IF app.drained + 1 = batchSemCap THEN "returned" ELSE "drain",
                           !.ret = IF app.drained + 1 = batchSemCap THEN "true" ELSE @]
    /\ UNCHANGED <<cfg, globalConfig, call, cacheFiles, tuiModel, buildVars>>

NextBatch ==
    \/ HandleDirectDownload
    \/ HandleBatchDownload
    \/ BatchLoop
    \/ \E k \in DOMAIN app.g : DownloadModel(k)
    \/ \E k \in DOMAIN app.g : DownloadModelEnd(k)
    \/ BatchDrain
    \/ Cancel

SpecBatch == InitBatch /\ [][NextBatch]_vars

\* ---------------------------------------------------------------- matching
\* strings.TrimSpace
RECURSIVE TrimSpace(_)
TrimSpace(s) ==
    IF s = <<>> THEN s
    ELSE IF Head(s) = " " THEN TrimSpace(Tail(s))
    ELSE IF s[Len(s)] = " " THEN TrimSpace(SubSeq(s, 1, Len(s) - 1))
    ELSE s

\* strings.Fields: the maximal runs of characters that are not spaces.
RECURSIVE Fields(_)
Fields(s) ==
    IF s = <<>> THEN <<>>
    ELSE IF Head(s) = " " THEN Fields(Tail(s))
    ELSE LET n == IF \E i \in 1..Len(s) : s[i] = " "
                  THEN (CHOOSE i \in 1..Len(s) :
                            s[i] = " " /\ \A j \in 1..(i - 1) : s[j] # " ") - 1
                  ELSE Len(s)
         IN <<SubSeq(s, 1, n)>> \o Fields(SubSeq(s, n + 1, Len(s)))

\* slices.Contains
slicesContains(parts, p) == \E i \in 1..Len(parts) : parts[i] = p

\* Similarities are counted in tenths: 10 is 1.0.
FullSimilarity == 10

PartBonus == 3

\* The scores swg.Compare can give to a candidate that differs from the
\* search name.
SwgScores == {0, 5, 10}

MaxCharaID == 1000

compareSimilarity(searchName, searchCandidate, candidateParts, searchParts, candidate, bestMatch, id, bestID) ==
    IF searchName = searchCandidate
    THEN [match |-> candidate, id |-> id, update |-> TRUE]
    ELSE IF \E i \in 1..Len(searchParts) : slicesContains(candidateParts, searchParts[i])
    THEN [match |-> candidate, id |-> id, update |-> TRUE]
    ELSE IF Len(candidate) < Len(bestMatch)
    THEN [match |-> candidate, id |-> id, update |-> TRUE]
    ELSE IF Len(candidate) = Len(bestMatch) /\ KeyLess(id, bestID)
    THEN [match |-> candidate, id |-> id, update |-> TRUE]
    ELSE [match |-> bestMatch, id |-> bestID, update |-> FALSE]

\* swg is the score of swg.Compare for each lower-cased candidate.
calculateSimilarity(swg, searchName, searchCandidate, searchParts, candidateParts) ==
    IF searchName = searchCandidate THEN FullSimilarity
    ELSE swg[searchCandidate]
           + PartBonus * Cardinality({i \in 1..Len(searchParts) :
                                         slicesContains(candidateParts, searchParts[i])})

isValidCandidate(id) ==
    LET r == Atoi(id) IN r.err = Nil /\ r.n <= MaxCharaID

NoMatch == [id |-> <<>>, match |-> <<>>, sim |-> 0]

\* The body of the inner loop of FindBestMatch for one candidate name.
MatchName(swg, searchName, searchParts, id, candidate, best) ==
    IF candidate = <<>> THEN best
    ELSE LET searchCandidate == TrimSpace(ToLower(candidate))
             candidateParts == Fields(searchCandidate)
             sim == calculateSimilarity(swg, searchName, searchCandidate,
                                        searchParts, candidateParts)
         IN IF sim > best.sim
            THEN [id |-> id, match |-> candidate, sim |-> sim]
            ELSE IF sim = best.sim
            THEN LET r == compareSimilarity(searchName, searchCandidate, candidateParts,
                                            searchParts, candidate, best.match, id, best.id)
                 IN IF r.update THEN [id |-> r.id, match |-> r.match, sim |-> best.sim]
                    ELSE best
            ELSE best

RECURSIVE MatchNames(_, _, _, _, _, _)
MatchNames(swg, searchName, searchParts, id, names, best) ==
    IF names = <<>> THEN best
    ELSE MatchNames(swg, searchName, searchParts, id, Tail(names),
                    MatchName(swg, searchName, searchParts, id, Head(names), best))

RECURSIVE MatchCandidates(_, _, _, _, _, _)
MatchCandidates(swg, searchName, searchParts, candidates, ids, best) ==
    IF ids = <<>> THEN best
    ELSE MatchCandidates(swg, searchName, searchParts, candidates, Tail(ids),
                         IF isValidCandidate(Head(ids))
                         THEN MatchNames(swg, searchName, searchParts, Head(ids),
                                         candidates[Head(ids)], best)
                         ELSE best)

\* ids is the order in which the range over the candidates yields its keys.
FindBestMatch(swg, name, candidates, ids) ==
    LET searchName == TrimSpace(ToLower(name))
    IN MatchCandidates(swg, searchName, Fields(searchName), candidates, ids, NoMatch)

\* The inputs of the calls.
MatchQueries == {<<"k">>, <<"K", " ">>, <<"t">>}

MatchIDs == {<<"2">>, <<"1", "0">>, <<"x">>, <<"1", "0", "0", "1">>}

MatchNameLists ==
    {<<<<"k">>>>, <<<<"K">>>>, <<<<"k", " ", "t">>>>, <<<<"t">>, <<>>>>,
     <<<<"k", "t">>, <<"k">>>>}

MatchCandidateSets ==
    {S \in SUBSET MatchIDs : Cardinality(S) <= 2}

SwgKeys == {<<"k">>, <<"t">>, <<"k", " ", "t">>, <<"k", "t">>, <<"a">>}

SwgTables ==
    {[c \in SwgKeys |-> v] : v \in SwgScores}
        \cup {[c \in SwgKeys |-> IF Len(c) = 1 THEN 10 ELSE 5]}

\* The result of FindBestMatch for each order the map can be iterated in.
MatchOutcomes(swg, name, candidates) ==
    {FindBestMatch(swg, name, candidates, mapRange(DOMAIN candidates, seed)) :
        seed \in Seeds}

\* A caller has a search name and a candidate map at hand.
MatchCase ==
    /\ call.op = "none"
    /\ \E name \in MatchQueries, S \in MatchCandidateSets, swg \in SwgTables :
        \E candidates \in [S -> MatchNameLists] :
           call' = [op |-> "candidates", name |-> name, candidates |-> candidates,
                    swg |-> swg]
    /\ UNCHANGED <<cfg, globalConfig, cacheFiles, app, tuiModel, buildVars>>

CallFindBestMatch ==
    /\ call.op = "candidates"
    /\ \E seed \in Seeds :
        \E r \in {FindBestMatch(call.swg, call.name, call.candidates,
                                mapRange(DOMAIN call.candidates, seed))} :
           call' = [op |-> "FindBestMatch", name |-> call.name,
                    candidates |-> call.candidates, swg |-> call.swg, out |-> r,
                    outs |-> MatchOutcomes(call.swg, call.name, call.candidates)]
    /\ UNCHANGED <<cfg, globalConfig, cacheFiles, app, tuiModel, buildVars>>

NextMatch ==
    \/ MatchCase
    \/ CallFindBestMatch

SpecMatch == InitCalls /\ [][NextMatch]_vars

\* ---------------------------------------------------------------- key handling
\* The key messages the terminal sends.
KeyMsgs == {"ctrl+c", KeyEsc, "enter", " ", "a", "3", "up", "down"}

\* The keys that stand for a character of the text.
TypedChars == {" ", "a", "3"}

\* The longest text that is typed.
MaxInput == 1

\* The search names Enter can send.
SearchNames ==
    {TrimSpace(t) : t \in UNION {[1..n -> TypedChars] : n \in 0..MaxInput}}

\* TextInput.Update: a typed character is added to the text.
textInputUpdate(m, key) ==
    IF key \in TypedChars /\ Len(m.TextInput) < MaxInput
    THEN [m EXCEPT !.TextInput = Append(@, key)]
    ELSE m

\* A send on a channel of capacity 1 in a select with a default case.
trySend(ch, v) == IF ch = <<>> THEN <<v>> ELSE ch

ErrEmptyInput == <<"enter a character name or a model name">>

handleInputState(m, key) ==
    IF key = "enter"
    THEN LET value == TrimSpace(m.TextInput)
         IN IF value = <<>>
            THEN [m EXCEPT !.ErrorMessage = ErrEmptyInput]
            ELSE [m EXCEPT !.State = StateLoading, !.SearchChan = trySend(@, value)]
    ELSE textInputUpdate(m, key)

\* Esc also quits.
handleLoadingStateQuits(m, key) ==
    IF key = KeyEsc THEN [m EXCEPT !.State = StateInput, !.Quitting = TRUE] ELSE m

handleLoadingState(m, key) ==
    IF key = KeyEsc THEN [m EXCEPT !.State = StateInput] ELSE m

\* Live2dList.Update: the cursor keys move the cursor inside the list.
listUpdate(l, key) ==
    IF key = "up" /\ l.index > 0 THEN [l EXCEPT !.index = @ - 1]
    ELSE IF key = "down" /\ l.index < Len(l.items) - 1 THEN [l EXCEPT !.index = @ + 1]
    ELSE l

\* slices.Delete of the first element equal to id.
RECURSIVE deleteFirst(_, _)
deleteFirst(ids, id) ==
    IF ids = <<>> THEN <<>>
    ELSE IF Head(ids) = id THEN Tail(ids)
    ELSE <<Head(ids)>> \o deleteFirst(Tail(ids), id)

handleSelectAll(m) ==
    LET n == Len(m.Live2dList.items)
        allSelected == \A i \in 0..(n - 1) : i \in m.Live2dList.selected
    IN [m EXCEPT !.Live2dList.selected = IF allSelected THEN {} ELSE 0..(n - 1),
                 !.SelectedIDs = IF allSelected THEN <<>> ELSE [i \in 1..n |-> i - 1]]

\* The titles of the selected items, each once, sorted: the titles of a
\* list are in ascending order, so this is the order of the list.
GetSelectedItems(m) ==
    LET l == m.Live2dList
        RECURSIVE pick(_)
        pick(i) == IF i >= Len(l.items) THEN <<>>
                   ELSE (IF \E j \in 1..Len(m.SelectedIDs) : m.SelectedIDs[j] = i
                         THEN <<l.items[i + 1]>> ELSE <<>>) \o pick(i + 1)
    IN pick(0)

handleListEnter(m) ==
    LET selected == GetSelectedItems(m)
    IN IF Len(selected) > 0
       THEN [m EXCEPT !.Items = @ \cup {selected[i] : i \in 1..Len(selected)},
                      !.State = StateDownloading,
                      !.SelectChan = trySend(@, selected)]
       ELSE m

handleListState(m, key) ==
    LET l == m.Live2dList
    IN CASE key = " " ->
              IF l.items = <<>> THEN m
              ELSE IF l.index \in l.selected
              THEN [m EXCEPT !.Live2dList.selected = @ \ {l.index},
                             !.SelectedIDs = deleteFirst(@, l.index)]
              ELSE [m EXCEPT !.Live2dList.selected = @ \cup {l.index},
                             !.SelectedIDs = Append(@, l.index)]
         [] key = "a" -> handleSelectAll(m)
         [] key = "up" ->
              IF l.index = 0 /\ Len(l.items) > 0
              THEN [m EXCEPT !.Live2dList.index = Len(l.items) - 1]
              ELSE [m EXCEPT !.Live2dList = listUpdate(@, key)]
         [] key = "down" ->
              IF l.index = Len(l.items) - 1 /\ Len(l.items) > 0
              THEN [m EXCEPT !.Live2dList.index = 0]
              ELSE [m EXCEPT !.Live2dList = listUpdate(@, key)]
         [] key = "enter" -> handleListEnter(m)
         [] key = KeyEsc ->
              [m EXCEPT !.State = StateInput, !.Live2dList.index = 0,
                        !.Items = {}, !.TextInput = <<>>]
         [] OTHER -> m

handleDownloadingState(m, key) ==
    IF key = KeyEsc
    THEN [m EXCEPT !.State = StateInput, !.Items = {}, !.TextInput = <<>>,
                   !.Live2dList.index = 0]
    ELSE m

\* close(m.cancelChan) panics when the channel is closed already, and the
\* statements after it are not reached.
handleKeyMsg(m, key) ==
    IF key = "ctrl+c" \/ (key = KeyEsc /\ m.State = StateInput)
    THEN IF m.closes >= 1
         THEN [m EXCEPT !.closes = @ + 1, !.panic = TRUE]
         ELSE [m EXCEPT !.closes = 1, !.CtxDone = TRUE, !.Quitting = TRUE,
                        !.quit = "pending"]
    ELSE CASE m.State = StateInput -> handleInputState(m, key)
           [] m.State = StateLoading -> handleLoadingState(m, key)
           [] m.State = StateList -> handleListState(m, key)
           [] m.State = StateDownloading -> handleDownloadingState(m, key)
           [] OTHER -> m

handleUpdateListMsg(m, items) ==
    [m EXCEPT !.Live2dList = [items |-> items,
                              index |-> IF @.index >= Len(items) THEN Len(items) - 1
                                        ELSE @.index,
                              selected |-> {}],
              !.SelectedIDs = <<>>,
              !.State = StateList]

\* The program runs: its event loop has not ended, no goroutine has
\* panicked and main has not returned.
ProgramRuns == ~tuiModel.panic /\ ~app.crashed /\ app.pc # "exited"

TuiRuns == ProgramRuns /\ tuiModel.quit # "done"

\* Update handles a key message.
HandleKeyMsg(key) ==
    /\ TuiRuns
    /\ tuiModel.listMsg = <<>>
    /\ tuiModel' = handleKeyMsg(tuiModel, key)
    /\ UNCHANGED <<cfg, globalConfig, call, cacheFiles, app, buildVars>>

\* Update handles the UpdateListMsg that updateCharaCostumes sent.
HandleUpdateListMsg ==
    /\ TuiRuns
    /\ tuiModel.listMsg # <<>>
    /\ tuiModel' = [handleUpdateListMsg(tuiModel, tuiModel.listMsg[1])
                        EXCEPT !.listMsg = <<>>]
    /\ UNCHANGED <<cfg, globalConfig, call, cacheFiles, app, buildVars>>

\* The event loop handles the message of the tea.Quit command and ends.
HandleQuitMsg ==
    /\ TuiRuns
    /\ tuiModel.quit = "pending"
    /\ tuiModel' = [tuiModel EXCEPT !.quit = "done"]
    /\ UNCHANGED <<cfg, globalConfig, call, cacheFiles, app, buildVars>>

\* ---------------------------------------------------------------- search
\* What the API gives for a character: the value under "characterName".
NamesFull == JList(<<JStr(<<"a">>), JStr(<<"a">>), JStr(<<"a">>), JStr(<<"a">>)>>)

NamesNoDisplay == JList(<<JStr(<<"a">>), JStr(<<"a">>), JStr(<<"a">>), JStr(<<>>)>>)

NamesShort == JList(<<JStr(<<"a">>)>>)

NamesNoString == JList(<<JNum(<<"5">>), JStr(<<"a">>), JStr(<<"a">>), JNum(<<"5">>)>>)

CharaInfos ==
    {JNil, JStr(<<"a">>), JList(<<>>), NamesShort, NamesFull, NamesNoDisplay, NamesNoString}

APIErrors == {Nil, <<"request failed">>}

\* The entry of a character in the roster: a JSON object with its
\* "characterName", or a value that is no object.
RosterInfo(names) == [isMap |-> TRUE, characterName |-> names]

RosterNoMap == [isMap |-> FALSE, characterName |-> JNil]

Rosters ==
    {<<>>,
     <<"2">> :> RosterInfo(NamesFull),
     <<"2">> :> RosterInfo(NamesNoDisplay),
     <<"2">> :> RosterInfo(NamesShort),
     (<<"2">> :> RosterInfo(NamesShort)) @@ (<<"1", "0">> :> RosterInfo(NamesFull)),
     (<<"x">> :> RosterInfo(NamesFull)) @@ (<<"1", "0", "0", "1">> :> RosterInfo(NamesFull))
        @@ (<<"2">> :> RosterNoMap),
     <<"2">> :> RosterInfo(JStr(<<"a">>)),
     <<"2">> :> RosterInfo(NamesNoString)}

\* The costumes GetCharaCostumes gives.
CostumeResults ==
    {[err |-> <<"request failed">>, costumes |-> <<>>],
     [err |-> Nil, costumes |-> <<>>],
     [err |-> Nil, costumes |-> <<<<"m1">>, <<"m2">>>>]}

\* The elements of a []any as strings: one that is no string leaves "".
namesOf(characterNames) ==
    [i \in 1..Len(characterNames.l) |->
        IF characterNames.l[i].t = "string" THEN characterNames.l[i].s ELSE <<>>]

findChara(roster, rosterErr, swg, name, seed) ==
    IF rosterErr # Nil
    THEN [chara |-> <<>>, err |-> Wrap("roster failed", rosterErr)]
    ELSE LET ids == {id \in DOMAIN roster :
                        /\ Atoi(id).err = Nil
                        /\ Atoi(id).n <= MaxCharaID
                        /\ roster[id].isMap
                        /\ roster[id].characterName.t = "[]any"}
             candidates == [id \in ids |-> namesOf(roster[id].characterName)]
             best == FindBestMatch(swg, name, candidates, mapRange(ids, seed))
         IN IF best.sim = 0
            THEN [chara |-> <<>>, err |-> <<"no matching character">>]
            ELSE [chara |-> <<[ID |-> Atoi(best.id).n, Name |-> best.match,
                               Names |-> candidates[best.id]]>>,
                  err |-> Nil]

\* What findChara can give for a search name: the roster, the scores of
\* the names and the order of the candidate map vary.
FindCharaOutcomes ==
    [name \in SearchNames |->
        {findChara(roster, rosterErr, swg, name, seed) :
            roster \in Rosters, rosterErr \in APIErrors, swg \in SwgTables,
            seed \in Seeds}]

\* SetError and the return to the input state that follows it.
showError(m, message) == [m EXCEPT !.ErrorMessage = message, !.State = StateInput]

\* Each handler gives the model as it leaves it, what it returns ("none"
\* when it panics) and the number of names it found.
Outcome(m, returned, names) == [m |-> m, ret |-> returned, names |-> names]

updateCharaCostumes(m, names, res) ==
    IF res.err # Nil
    THEN Outcome(showError(m, Wrap("costume list failed", res.err)), "true", names)
    ELSE IF Len(res.costumes) = 0
    THEN Outcome(showError(m, <<"no Live2D model for this character">>), "true", names)
    ELSE Outcome([m EXCEPT !.ErrorMessage = <<>>, !.listMsg = <<res.costumes>>],
                 "true", names)

handleCharaIDSearch(m, charaErr, characterNames, res) ==
    IF charaErr # Nil
    THEN Outcome(showError(m, Wrap("character failed", charaErr)), "true", <<>>)
    ELSE IF characterNames.t # "[]any"
    THEN Outcome(showError(m, <<"invalid name format">>), "true", <<>>)
    ELSE IF Len(characterNames.l) < 4
    THEN Outcome(showError(m, <<"invalid name format">>), "true", <<Len(characterNames.l)>>)
    ELSE IF characterNames.l[1].t # "string"
    THEN Outcome(showError(m, <<"invalid name format">>), "true", <<Len(characterNames.l)>>)
    ELSE updateCharaCostumes(m, <<Len(characterNames.l)>>, res)

\* matchChara.Names[3] panics when the character has fewer than 4 names.
handleCharaSearch(m, found, res) ==
    IF found.err # Nil
    THEN Outcome(showError(m, Wrap("search failed", found.err)), "true", <<>>)
    ELSE LET Names == found.chara[1].Names
         IN IF Len(Names) < 4
            THEN Outcome(m, "none", <<Len(Names)>>)
            ELSE updateCharaCostumes(m, <<Len(Names)>>, res)

handleDirectDownload(m, input, err) ==
    LET name == TrimRip(input)
        shown == err # Nil /\ ~isCancelledError(err)
    IN Outcome([m EXCEPT !.Items = @ \cup {name},
                         !.State = IF shown THEN StateInput ELSE StateDownloading,
                         !.ErrorMessage = IF shown THEN Wrap("download failed", err) ELSE @],
               IF err # Nil /\ isCancelledError(err) THEN "false" ELSE "true", <<>>)

\* The select of Run takes the search name that Enter sent; "q" ends Run.
RunSearch ==
    /\ ProgramRuns
    /\ app.pc = "idle"
    /\ tuiModel.SearchChan # <<>>
    /\ app' = [NoBatch EXCEPT
                  !.input = tuiModel.SearchChan[1],
                  !.pc = IF tuiModel.SearchChan[1] = <<"q">> THEN "exited" ELSE "search"]
    /\ tuiModel' = [tuiModel EXCEPT !.SearchChan = <<>>]
    /\ UNCHANGED <<cfg, globalConfig, call, cacheFiles, buildVars>>

\* The select of Run finds the cancel channel closed: Run returns and the
\* process ends.
RunCancelled ==
    /\ ProgramRuns
    /\ app.pc = "idle"
    /\ tuiModel.closes >= 1
    /\ app' = [app EXCEPT !.pc = "exited"]
    /\ UNCHANGED <<cfg, globalConfig, call, cacheFiles, tuiModel, buildVars>>

\* The handler has returned r, or has panicked.
Handled(handler, r) ==
    /\ app' = [app EXCEPT !.handler = handler, !.ret = r.ret, !.names = r.names,
                          !.input = <<>>,
                          !.crashed = (r.ret = "none"),
                          !.pc = IF r.ret = "false" THEN "exited" ELSE "idle"]
    /\ tuiModel' = r.m

\* handleDownload: a number is a character id, <number>_<rest> a model
\* name (no key of KeyMsgs types the "_" of one), anything else a character
\* name; the handler's own copy of the name ends with it.  The message that
\* updateCharaCostumes sends is taken by the event loop before Send returns.
HandleDownload ==
    /\ ProgramRuns
    /\ app.pc = "search"
    /\ tuiModel.listMsg = <<>>
    /\ LET input == app.input
           parts == SplitN(input)
       IN IF Atoi(input).err = Nil
          THEN \E charaErr \in APIErrors, characterNames \in CharaInfos,
                  res \in CostumeResults :
                  Handled("handleCharaIDSearch",
                          handleCharaIDSearch(tuiModel, charaErr, characterNames, res))
          ELSE IF Len(parts) >= 2 /\ Atoi(parts[1]).err = Nil
          THEN \E dataErr \in Live2dDataErrors,
                  constructErr \in ConstructErrors(tuiModel.CtxDone) :
                  Handled("handleDirectDownload",
                          handleDirectDownload(tuiModel, input,
                                               downloadLive2d(dataErr, Nil, constructErr)))
          ELSE \E found \in FindCharaOutcomes[input], res \in CostumeResults :
                  Handled("handleCharaSearch", handleCharaSearch(tuiModel, found, res))
    /\ UNCHANGED <<cfg, globalConfig, call, cacheFiles, buildVars>>

NextKeys ==
    \/ \E key \in KeyMsgs : HandleKeyMsg(key)
    \/ HandleUpdateListMsg
    \/ HandleQuitMsg
    \/ RunSearch
    \/ RunCancelled
    \/ HandleDownload

SpecKeys == InitCalls /\ [][NextKeys]_vars

\* ---------------------------------------------------------------- properties
\* A Construct() call holds a slot of the gate from the successful send on
\* modelSem until it returns.
Holding(b) == pc[b] \in {"mkdir", "send", "results", "manifest"}

Holders == {b \in Builds : Holding(b)}

AllReturned == \A b \in Builds : pc[b] = "done"

\* The worker pool of build b was started.
PoolStarted(b) ==
    workers[b].ranging + Cardinality(workers[b].fetching)
        + workers[b].blocked + workers[b].exited > 0

RECURSIVE SumFetching(_)
SumFetching(bs) ==
    IF bs = {}
    THEN 0
    ELSE LET b == CHOOSE x \in bs : TRUE
         IN Cardinality(workers[b].fetching) + SumFetching(bs \ {b})

\* DownloadBundleFile invocations executing now, over all builds.
TotalFetching == SumFetching(Builds)

\* C1: at every moment at most MaxConcurrentModels Construct() calls hold
\* a slot of the model gate.
C1_AdmissionBound == Cardinality(Holders) <= cfg.MaxConcurrentModels

\* The gate is full while another build waits at the select.
C1_Witness ==
    /\ Cardinality(Holders) = cfg.MaxConcurrentModels
    /\ \E b \in Builds : pc[b] = "idle" /\ CallerMayStart(b)

\* C2: the tokens in modelSem are exactly those of the Construct() calls
\* between acquire and return (one release per acquire on every exit
\* path, none without an acquire), so the gate is empty once all returned.
C2_ReleaseMatches ==
    /\ modelSem = Cardinality(Holders)
    /\ AllReturned => modelSem = 0

\* All builds returned, one with an error after it had acquired, one
\* cancelled at the gate.
C2_Witness ==
    /\ AllReturned
    /\ \E b \in Builds : ret[b] # Nil /\ tui.Items[builders[b].ModelName].exists
    /\ \E b \in Builds : ret[b] = ErrCancelled /\ ~tui.Items[builders[b].ModelName].exists

Dequeued(b, i) ==
    /\ i \in 1..sent[b]
    /\ \A k \in 1..Len(taskChan[b].buf) : taskChan[b].buf[k] # i

\* C4 as stated: a task that a worker took from the queue, and whose fetch
\* is not executing any more, has had exactly one outcome sent on its
\* task.result, also when the worker took it after the cancellation.
C4_OutcomePerTask ==
    \A b \in Builds : \A i \in 1..Len(tasks[b]) :
        (Dequeued(b, i) /\ i \notin workers[b].fetching) => delivered[b][i] = 1

\* Every worker of build b has returned or is at the end of its range.
WorkersTerminated(b) ==
    /\ workers[b].fetching = {}
    /\ workers[b].blocked = 0
    /\ workers[b].ranging > 0 => RangeOver(b)

\* C5 as stated: after the cancellation nothing stays blocked: when no step
\* is possible any more, every Construct() call has returned and every
\* worker has terminated.
C5_CancelTerminates ==
    cancelled => ((AllReturned /\ \A b \in Builds : WorkersTerminated(b)) \/ ENABLED Next)

\* C6 as stated, for runs without cancellation: once Construct() has
\* returned (also after a first error outcome), every task it created has
\* produced its outcome and no worker of the build executes a fetch.
C6_ReturnedMeansDrained ==
    \A b \in Builds :
        (pc[b] = "done" /\ ~cancelled) =>
            /\ workers[b].fetching = {}
            /\ \A i \in 1..Len(tasks[b]) : delivered[b][i] = 1

\* The destinations a build needs, from its input manifest.
RequiredPaths(b) ==
    LET bd == builders[b].data
        in(dir, bfs) == {Join(Join(dataPath(b), <<dir>>), bfs[i].FileName) : i \in 1..Len(bfs)}
    IN {Join(dataPath(b), ModelMoc), Join(dataPath(b), PhysicsJson)}
           \cup in("textures", bd.Textures)
           \cup in("motions", bd.Motions)
           \cup in("expressions", bd.Expressions)

Scanned(b) == pc[b] \in {"send", "results", "manifest"}

\* C7: when prepareDownloadTasks has run, the tasks are exactly the
\* required files that did not exist at that moment, the existing-file
\* list is exactly those that did, and together they are as many as the
\* total reported to the progress sink.
C7_PartitionAtScan ==
    [][\A b \in Builds :
          (pc[b] = "mkdir" /\ Scanned(b)') =>
              LET bd == builders[b].data
              IN /\ {tasks'[b][i].filePath : i \in 1..Len(tasks'[b])}
                        = {p \in RequiredPaths(b) : ~Exists(disk', p)}
                 /\ {existingFiles'[b][i] : i \in 1..Len(existingFiles'[b])}
                        = {p \in RequiredPaths(b) : Exists(disk', p)}
                 /\ Len(tasks'[b]) + Len(existingFiles'[b])
                        = 2 + Len(bd.Textures) + Len(bd.Motions) + Len(bd.Expressions)
                 /\ tui'.Items[builders[b].ModelName].Total
                        = Len(tasks'[b]) + Len(existingFiles'[b])]_vars

\* A build found a part of its files on the disk and scheduled the rest.
C7_Witness ==
    \E b \in Builds : Scanned(b) /\ tasks[b] # <<>> /\ existingFiles[b] # <<>>

\* C8 as stated: a fresh builder run after a successful Construct() for
\* the same model creates no task.
C8_RerunNoTasks ==
    \A b, c \in Builds :
        (/\ b < c
         /\ builders[b].path = builders[c].path
         /\ pc[b] = "done"
         /\ ret[b] = Nil) => tasks[c] = <<>>

\* C9 as stated: a build that succeeded without a physics file on the
\* disk (the remote answered 404) has an empty physics path, in the
\* accumulator and in the manifest it wrote.
C9_PhysicsPathEmpty ==
    \A b \in Builds :
        (/\ pc[b] = "done"
         /\ ret[b] = Nil
         /\ Join(dataPath(b), PhysicsJson) \notin disk.files)
        => /\ live2dModel[b].Physics = <<>>
           /\ Head(modelJSON[builders[b].path]).Physics = <<>>

\* C10 as stated: a task whose DownloadBundleFile returned an error has no
\* file at its destination (none existed when the task was created).
C10_WholeOrNothing ==
    \A b \in Builds : \A i \in 1..Len(tasks[b]) :
        (result[b][i] # <<>> /\ Head(result[b][i]).err # Nil)
            => tasks[b][i].filePath \notin disk.files

\* The error is the one a worker sent as a task's outcome.
TaskError(e) == e # Nil /\ Head(e) = "download file failed"

\* The error outcome of the earliest-created task among those that failed.
LowestFailing(b) ==
    CHOOSE o \in {history[b].arrived[k] : k \in 1..Len(history[b].arrived)} :
        \A k \in 1..Len(history[b].arrived) : o.task <= history[b].arrived[k].task

\* C11 as stated: when Construct() returns the error of a task, it is the
\* error of the outcome that was sent first in time.
C11_FirstArrivedError ==
    \A b \in Builds :
        (pc[b] = "done" /\ TaskError(ret[b])) => ret[b] = history[b].arrived[1].err

\* C11 amended: when Construct() returns the error of a task, it is the
\* error of the earliest-created failing task, whichever error outcome was
\* sent first in time.
C11_LowestFailingError ==
    \A b \in Builds :
        (pc[b] = "done" /\ TaskError(ret[b])) => ret[b] = LowestFailing(b).err

\* Construct() returned the error of a task although a later task's,
\* different, error had been sent before it.
C11_Witness ==
    \E b \in Builds :
        /\ pc[b] = "done"
        /\ TaskError(ret[b])
        /\ Len(history[b].arrived) >= 2
        /\ history[b].arrived[1].task > history[b].arrived[2].task
        /\ history[b].arrived[1].err # ret[b]
        /\ history[b].arrived[2].err = ret[b]

NotFoundOutcome ==
    Wrap("download file failed", Wrap("download http error", ErrHTTPStatus(404)))

\* C13: allowNotFound is set for the physics task and for no other task;
\* a 404 answer to the fetch of any other task is an HTTP status error that
\* leaves the disk alone, only such tasks ever fail that way, and a
\* Construct() call one of whose tasks failed that way does not return nil.
C13_MandatoryNotFoundFails ==
    \A b \in Builds :
        /\ \A i \in 1..Len(tasks[b]) :
               tasks[b][i].allowNotFound
                   <=> tasks[b][i].filePath = Join(dataPath(b), PhysicsJson)
        /\ \A i \in workers[b].fetching : \A resp \in Responses :
               (~tasks[b][i].allowNotFound /\ resp.status = 404) =>
                   LET r == DownloadBundleFile(FALSE, disk, resp, tasks[b][i].filePath,
                                               tasks[b][i].allowNotFound)
                   IN /\ r.err = Wrap("download http error", ErrHTTPStatus(404))
                      /\ r.disk = disk
        /\ \A k \in 1..Len(history[b].arrived) :
               history[b].arrived[k].err = NotFoundOutcome =>
                   /\ ~tasks[b][history[b].arrived[k].task].allowNotFound
                   /\ pc[b] = "done" => ret[b] # Nil

\* A texture was answered 404 and Construct() returned that error, while
\* the 404 of the physics file had been taken as a success.
C13_Witness ==
    \E b \in Builds :
        /\ pc[b] = "done"
        /\ ret[b] = NotFoundOutcome
        /\ ri[b] = 2
        /\ Join(dataPath(b), PhysicsJson) \notin disk.files
        /\ \E k \in 1..Len(history[b].arrived) :
               /\ history[b].arrived[k].err = NotFoundOutcome
               /\ getFileType(tasks[b][history[b].arrived[k].task].filePath) = "texture"

\* What a worker sends for a fetch that was answered with an HTML page.
HtmlOutcome == Wrap("download file failed", ErrHTML)

\* C14: for a mandatory file, DownloadBundleFile answers a 200 response of
\* content type text/html with an error and leaves the file system as it
\* was; the step in which a worker reports that error creates no file.
C14_HtmlRejected ==
    [][\A b \in Builds :
          /\ \A i \in workers[b].fetching : \A resp \in Responses :
                 (~tasks[b][i].allowNotFound /\ resp.status = 200 /\ resp.html) =>
                     LET r == DownloadBundleFile(FALSE, disk, resp, tasks[b][i].filePath,
                                                 tasks[b][i].allowNotFound)
                     IN r.err # Nil /\ r.disk = disk
          /\ (/\ Len(history'[b].arrived) = Len(history[b].arrived) + 1
              /\ history'[b].arrived[Len(history'[b].arrived)].err = HtmlOutcome)
             => disk' = disk]_vars

\* The fetch of a mandatory file was answered with an HTML page, the
\* worker reported the error and there is no file at the destination.
C14_Witness ==
    \E b \in Builds : \E k \in 1..Len(history[b].arrived) :
        LET t == tasks[b][history[b].arrived[k].task]
        IN /\ history[b].arrived[k].err = HtmlOutcome
           /\ ~t.allowNotFound
           /\ t.filePath \notin disk.files

\* What a worker sends when DownloadBundleFile found the context done.
CancelledOutcome == Wrap("download file failed", ErrCancelled)

\* C15: a DownloadBundleFile call made when the context is already done
\* returns the cancelled error and has done nothing: no HTTP request was
\* issued, no directory and no file was created.
C15_CancelledBeforeWork ==
    [][\A b \in Builds : \A i \in workers[b].fetching :
          (cancelled /\ i \notin workers'[b].fetching) =>
              /\ Head(result'[b][i]).err = CancelledOutcome
              /\ history'[b].requested = history[b].requested
              /\ disk' = disk]_vars

\* A worker had taken a task before the cancellation and called
\* DownloadBundleFile after it: the outcome is the cancelled error, no
\* request was made for the task and its destination does not exist.
C15_Witness ==
    \E b \in Builds : \E k \in 1..Len(history[b].arrived) :
        LET i == history[b].arrived[k].task
        IN /\ cancelled
           /\ history[b].arrived[k].err = CancelledOutcome
           /\ i \notin history[b].requested
           /\ ~Exists(disk, tasks[b][i].filePath)
           /\ ~Exists(disk, Dir(tasks[b][i].filePath))

\* The accumulator that references exactly the files of the input
\* manifest of build b, by their paths relative to the model directory.
ExpectedModel(b) ==
    LET bd == builders[b].data
        rel(dir, name) == <<"data", Sep, dir, Sep>> \o name
    IN [Model |-> <<"data", Sep, "model", ".moc">>,
        Physics |-> <<"data", Sep, "physics", ".json">>,
        Textures |-> [i \in 1..Len(bd.Textures) |-> rel("textures", bd.Textures[i].FileName)],
        Motions |-> [n \in {<<bd.Motions[i].FileName[1]>> : i \in 1..Len(bd.Motions)} |->
                        LET i == CHOOSE j \in 1..Len(bd.Motions) : <<bd.Motions[j].FileName[1]>> = n
                        IN <<[File |-> rel("motions", bd.Motions[i].FileName)]>>],
        Expressions |-> [i \in 1..Len(bd.Expressions) |->
                            [Name |-> <<bd.Expressions[i].FileName[1]>>,
                             File |-> rel("expressions", bd.Expressions[i].FileName)]]]

\* The scan of build b found every required file on the disk.
FoundAllPresent(b) ==
    /\ pc[b] \in {"manifest", "done"}
    /\ {existingFiles[b][k] : k \in 1..Len(existingFiles[b])} = RequiredPaths(b)

\* C16: a Construct() call whose scan found every required file on the
\* disk has no task, no worker and issues no HTTP request; it returns nil
\* (unless os.WriteFile of model.json fails, the one error left) having
\* written a model.json whose model, physics, textures, motions and
\* expressions reference exactly the required files.
C16_AllPresentNoFetch ==
    \A b \in Builds :
        FoundAllPresent(b) =>
            /\ tasks[b] = <<>>
            /\ workers[b] = NoWorkers
            /\ history[b].requested = {}
            /\ pc[b] = "done" =>
                   \/ ret[b] = <<"write model data failed">> /\ history[b].manifests = 0
                   \/ /\ ret[b] = Nil
                      /\ history[b].manifests = 1
                      /\ modelJSONPath(b) \in disk.files
                      /\ LET m == Head(modelJSON[builders[b].path])
                         IN /\ m.Model = ExpectedModel(b).Model
                            /\ m.Physics = ExpectedModel(b).Physics
                            /\ m.Textures = ExpectedModel(b).Textures
                            /\ m.Motions = ExpectedModel(b).Motions
                            /\ m.Expressions = ExpectedModel(b).Expressions

\* A build with a texture, a motion and an expression found all its files,
\* returned nil and wrote the manifest.
C16_Witness ==
    \E b \in Builds :
        /\ FoundAllPresent(b)
        /\ Len(existingFiles[b]) = 5
        /\ pc[b] = "done"
        /\ ret[b] = Nil
        /\ history[b].manifests = 1
        /\ Head(modelJSON[builders[b].path]).Expressions # <<>>

\* Construct() of build b is between its scan and its return.
Building(b) == pc[b] \in {"send", "results", "manifest"}

\* The number of files the input manifest of build b names.
ManifestSize(b) ==
    2 + Len(builders[b].data.Textures) + Len(builders[b].data.Motions)
      + Len(builders[b].data.Expressions)

C18_DistinctDestinations ==
    \A b, c \in Builds : \A i \in workers[b].fetching : \A j \in workers[c].fetching :
        <<b, i>> # <<c, j>> => tasks[b][i].filePath # tasks[c][j].filePath

\* C19: within one build at most MaxConcurrentDownloads DownloadBundleFile
\* invocations execute at the same time, however many tasks wait.
C19_FilePoolBound ==
    \A b \in Builds : Cardinality(workers[b].fetching) <= cfg.MaxConcurrentDownloads

\* Every worker of a build fetches while a task waits in the queue.
C19_Witness ==
    \E b \in Builds :
        /\ Cardinality(workers[b].fetching) = cfg.MaxConcurrentDownloads
        /\ taskChan[b].buf # <<>>

\* Every Construct() call has returned, the tasks of every build were all
\* sent, its queue is closed and drained and its workers have terminated.
Quiescent ==
    \A b \in Builds :
        /\ pc[b] = "done"
        /\ sent[b] = Len(tasks[b])
        /\ tasks[b] # <<>> => RangeOver(b)
        /\ WorkersTerminated(b)

\* C20: in a run without cancellation, eventually every build has
\* enqueued all its tasks and closed the queue, every worker has terminated
\* on the drained queue and every Construct() call has returned.
C20_RunsToCompletion == <>(cancelled \/ Quiescent)

\* All is quiet without a cancellation, after a build that returned the
\* error of a task while its other tasks were still with the workers.
C20_Witness ==
    /\ ~cancelled
    /\ Quiescent
    /\ \E b \in Builds :
           /\ TaskError(ret[b])
           /\ ri[b] = 0
           /\ \A i \in 1..Len(tasks[b]) : delivered[b][i] = 1

C26_DefaultIsFive ==
    call.op = "Get" => Head(call.out).MaxConcurrentDownloads = 5

\* C24: FetchData returns nil data whenever it returns an error, and after
\* a FetchData that returned no error, with caching enabled and a cache name
\* that is not empty, the cache file exists.
C24_NilDataOnError ==
    call.op = "FetchData" =>
        /\ call.err # Nil => call.data = <<>>
        /\ (call.err = Nil /\ call.useCharaCache /\ call.cache # <<>>) =>
               cacheFiles[call.cache].exists

\* A FetchData with caching returned data and the cache file is there.
C24_Witness ==
    /\ call.op = "FetchData"
    /\ call.useCharaCache
    /\ call.cache # <<>>
    /\ call.err = Nil
    /\ call.data # <<>>
    /\ cacheFiles[call.cache].exists

\* C22 as stated: for a well-formed model name getLive2dPath returns no
\* error and does not crash, and when the character record was not fetched
\* or its first name is missing, not a list, too short or not a string, the
\* path is the one with the directory chara_<3-digit id>.
C22_AlwaysFallsBack ==
    (call.op = "getLive2dPath" /\ call.wellFormed) =>
        /\ ~call.panic
        /\ call.err = Nil
        /\ call.firstName # "string" =>
               call.path = FilepathJoin(<<DefaultConfig.Live2dSavePath,
                                          CharaDirName(36),
                                          SplitN(call.live2dName)[2]>>)

\* C21: two serialisations of the manifest of accumulators with identical
\* contents are identical, and the layout and hit_areas_custom blocks are
\* the same constants for every model.
C21_StableSerialisation ==
    call.op = "createModelData" =>
        /\ call.out1 = call.out2
        /\ Contains(call.out1,
                    <<Quote, "layout", Quote, ":", "{",
                      Quote, "c", "e", "n", "t", "e", "r", "_", "x", Quote, ":", "0", ",",
                      Quote, "c", "e", "n", "t", "e", "r", "_", "y", Quote, ":", "0", ",",
                      Quote, "w", "i", "d", "t", "h", Quote, ":", "2", "}", ",",
                      Quote, "hit_areas_custom", Quote, ":", "{",
                      Quote, "b", "o", "d", "y", "_", "x", Quote, ":",
                          "[", "-", "0", ".", "3", ",", "0", ".", "2", "]", ",",
                      Quote, "b", "o", "d", "y", "_", "y", Quote, ":",
                          "[", "0", ".", "3", ",", "-", "1", ".", "9", "]", ",",
                      Quote, "h", "e", "a", "d", "_", "x", Quote, ":",
                          "[", "-", "0", ".", "2", "5", ",", "1", "]", ",",
                      Quote, "h", "e", "a", "d", "_", "y", Quote, ":",
                          "[", "0", ".", "2", "5", ",", "0", ".", "2", "]", "}", ",",
                      Quote, "model", Quote>>)

\* A manifest with three motions was serialised twice, the maps iterated
\* from different offsets.
C21_Witness ==
    /\ call.op = "createModelData"
    /\ call.seed1 # call.seed2
    /\ Cardinality(DOMAIN call.model.Motions) = 3
    /\ call.out1 = call.out2
    /\ Contains(call.out1,
                <<Quote, "motions", Quote, ":", "{", Quote, "B", Quote, ":">>)

\* C23: a Construct() call that fails at the gate because of the
\* cancellation returns the cancelled error and has no side effect: the
\* gate, the disk, the sink, the tasks and model.json are as they were, and
\* the call has no directory, no item in the sink and no task.
C23_CancelledAtGate ==
    [][\A b \in Builds :
          (pc[b] = "idle" /\ pc'[b] = "done") =>
              /\ ret'[b] = ErrCancelled
              /\ modelSem' = modelSem
              /\ disk' = disk
              /\ tui' = tui
              /\ modelJSON' = modelJSON
              /\ tasks' = tasks
              /\ workers' = workers
              /\ history'[b].manifests = history[b].manifests
              /\ ~Exists(disk', dataPath(b))
              /\ ~tui'.Items[builders[b].ModelName].exists
              /\ tasks'[b] = <<>>
              /\ modelJSON'[builders[b].path] = <<>>]_vars

\* A call found the gate full and the context done: it returned the
\* cancelled error, and it has no directory, no item and no task.
C23_Witness ==
    \E b \in Builds :
        /\ pc[b] = "done"
        /\ ret[b] = ErrCancelled
        /\ modelSem = modelSemCap
        /\ ~Exists(disk, dataPath(b))
        /\ ~tui.Items[builders[b].ModelName].exists
        /\ tasks[b] = <<>>
        /\ history[b].manifests = 0

\* C27: absent cancellation, the outcomes are folded strictly in the order
\* the tasks were created: the outcome folded is always that of the first
\* task not folded yet, and it is a success; the task error Construct()
\* returns is that of this task, so of the lowest-index failing task, and
\* nothing is folded after Construct() returned.
C27_FoldInOrder ==
    [][\A b \in Builds :
          LET i == ri[b] + 1
          IN /\ (~cancelled /\ pc[b] = "results" /\
                 (ri'[b] # ri[b] \/ live2dModel'[b] # live2dModel[b]
                      \/ completedFiles'[b] # completedFiles[b])) =>
                    /\ ri'[b] = i
                    /\ result[b][i] # <<>>
                    /\ Head(result[b][i]).err = Nil
                    /\ result'[b][i] = Tail(result[b][i])
                    /\ live2dModel'[b] =
                           updateModelData(live2dModel[b], tasks[b][i].filePath,
                                           Rel(builders[b].path, tasks[b][i].filePath))
             /\ (~cancelled /\ pc[b] = "results" /\ pc'[b] = "done" /\ TaskError(ret'[b])) =>
                    /\ result[b][i] # <<>>
                    /\ ret'[b] = Head(result[b][i]).err
                    /\ \A k \in 1..Len(history[b].arrived) :
                           history[b].arrived[k].task >= i
                    /\ ri'[b] = ri[b]
                    /\ live2dModel'[b] = live2dModel[b]
             /\ pc[b] = "done" =>
                    /\ ri'[b] = ri[b]
                    /\ live2dModel'[b] = live2dModel[b]
                    /\ completedFiles'[b] = completedFiles[b]]_vars

\* Without any cancellation, Construct() returned the error of its second
\* task after it had folded the first, and the outcome of the third task
\* is there and was not folded.
C27_Witness ==
    \E b \in Builds :
        /\ ~cancelled
        /\ pc[b] = "done"
        /\ TaskError(ret[b])
        /\ ri[b] = 1
        /\ Len(tasks[b]) = 3
        /\ result[b][3] # <<>>
        /\ live2dModel[b].Textures = <<>>

\* C28 as stated: the textures and the expressions of a manifest written
\* are in the order of the input manifest, whichever files were on the disk
\* before.
C28_ManifestInInputOrder ==
    \A b \in Builds :
        (pc[b] = "done" /\ ret[b] = Nil) =>
            /\ Head(modelJSON[builders[b].path]).Textures = ExpectedModel(b).Textures
            /\ Head(modelJSON[builders[b].path]).Expressions = ExpectedModel(b).Expressions

\* The accumulator that results from folding the files the scan of build b
\* found and then the files of its tasks, each list in its order.
FoldedInOrder(b) ==
    FoldExisting(b, EmptyModel,
                 existingFiles[b] \o [i \in 1..Len(tasks[b]) |-> tasks[b][i].filePath])

\* C29: the accumulator and the manifest of a Construct() call that
\* returned nil are determined by the input manifest and the files found
\* on the disk by the scan: they are the fold of the files found and then
\* of the tasks in the order of their creation, in whatever order the
\* workers finished.
C29_InterleavingIndependent ==
    \A b \in Builds :
        (pc[b] = "done" /\ ret[b] = Nil) =>
            /\ live2dModel[b] = FoldedInOrder(b)
            /\ modelJSON[builders[b].path] = <<ModelData(FoldedInOrder(b))>>

\* A build with two tasks returned nil, and the outcome of its second
\* task had been sent before that of its first.
C29_Witness ==
    \E b \in Builds :
        /\ pc[b] = "done"
        /\ ret[b] = Nil
        /\ Len(tasks[b]) = 2
        /\ history[b].reordered
        /\ Len(live2dModel[b].Textures) = 3

\* C30 as stated: a Construct() call made after the context was cancelled
\* returns an error, issues no request and writes no manifest.
C30_CancelledBeforeCall ==
    \A b \in Builds :
        (history[b].calledAfterCancel /\ pc[b] = "done") =>
            /\ ret[b] # Nil
            /\ history[b].requested = {}
            /\ history[b].manifests = 0

\* C31 as stated: a required file is folded into the accumulator under
\* the category of the manifest entry it came from, and into no other.
C31_FoldedUnderCategory ==
    call.op = "updateModelData" =>
        LET m == call.model
            o == call.before
            name == SplitDot0(Base(call.filePath))
        IN /\ m.Model = IF call.category = "model" THEN call.relPath ELSE o.Model
           /\ m.Physics = IF call.category = "physics" THEN call.relPath ELSE o.Physics
           /\ m.Textures = IF call.category = "texture"
                            THEN Append(o.Textures, call.relPath) ELSE o.Textures
           /\ IF call.category = "motion"
              THEN name \in DOMAIN m.Motions /\ m.Motions[name] = <<[File |-> call.relPath]>>
              ELSE m.Motions = o.Motions
           /\ m.Expressions = IF call.category = "expression"
                               THEN Append(o.Expressions,
                                           [Name |-> name, File |-> call.relPath])
                               ELSE o.Expressions

\* C32: every motion name of the accumulator has exactly one file; a
\* file folded as a motion becomes the one file of its name (the base name
\* up to the first dot), whatever the name had before, and leaves the
\* other names alone; a file folded as an expression adds one entry.
C32_OneFilePerMotion ==
    call.op \in {"NewLive2dBuilder", "updateModelData"} =>
        /\ \A n \in DOMAIN call.model.Motions : Len(call.model.Motions[n]) = 1
        /\ (call.op = "updateModelData" /\ getFileType(call.filePath) = "motion") =>
               LET name == SplitDot0(Base(call.filePath))
               IN /\ DOMAIN call.model.Motions = DOMAIN call.before.Motions \cup {name}
                  /\ call.model.Motions[name] = <<[File |-> call.relPath]>>
                  /\ \A n \in DOMAIN call.before.Motions :
                         n # name => call.model.Motions[n] = call.before.Motions[n]
        /\ (call.op = "updateModelData" /\ getFileType(call.filePath) = "expression") =>
               /\ Len(call.model.Expressions) = Len(call.before.Expressions) + 1
               /\ call.model.Motions = call.before.Motions

\* A second motion file of the name idle was folded: it took the place of
\* the first.
C32_Witness ==
    /\ call.op = "updateModelData"
    /\ getFileType(call.filePath) = "motion"
    /\ <<"idle">> \in DOMAIN call.before.Motions
    /\ call.before.Motions[<<"idle">>] # <<[File |-> call.relPath]>>
    /\ call.model.Motions[<<"idle">>] = <<[File |-> call.relPath]>>
    /\ DOMAIN call.model.Motions = {<<"idle">>}

\* C33 as stated: the completed map is never accessed by two goroutines
\* at once, so no write of it races with another write or with the read of
\* handleCancelledDownloads, and the runtime never stops the program.
C33_NoConcurrentMapAccess ==
    app.pc # "idle" =>
        /\ Cardinality({k \in DOMAIN app.g : app.g[k] = "writing"}) <= 1
        /\ ~app.raced
        /\ ~app.crashed

\* C34 as stated: when Construct() returned the cancelled error, the
\* caller takes it as a cancellation: handleDirectDownload returns false
\* and shows no error; downloadModel sends the error on errChan and
\* handleBatchDownload returns false.
C34_CancellationRecognised ==
    /\ (app.handler = "direct" /\ app.constructErr[1] = ErrCancelled) =>
           /\ app.ret = "false"
           /\ tuiModel.ErrorMessage = <<>>
    /\ app.handler = "batch" =>
           /\ \A k \in DOMAIN app.g :
                  (app.g[k] = "finished" /\ app.constructErr[k] = ErrCancelled) =>
                      k \in app.sent
           /\ (app.pc = "returned" /\
               \E k \in DOMAIN app.g : app.constructErr[k] = ErrCancelled) =>
                  app.ret = "false"

\* C35: a batch never has more than MaxConcurrentModels goroutines between
\* their launch and the release of their slot, and when handleBatchDownload
\* returns true every goroutine it launched has ended.
C35_BatchBound ==
    app.handler = "batch" =>
        /\ Cardinality(BatchRunning) <= Head(globalConfig).MaxConcurrentModels
        /\ app.peak <= Head(globalConfig).MaxConcurrentModels
        /\ (app.pc = "returned" /\ app.ret = "true") =>
               \A k \in DOMAIN app.g : app.g[k] \in {"none", "finished"}

\* A batch of three models returned true: all its goroutines have ended,
\* and MaxConcurrentModels of them had been running at once.
C35_Witness ==
    /\ app.handler = "batch"
    /\ app.pc = "returned"
    /\ app.ret = "true"
    /\ Len(app.selectedItems) = 3
    /\ \A k \in DOMAIN app.g : app.g[k] = "finished"
    /\ app.peak = Head(globalConfig).MaxConcurrentModels

\* C36: in a batch no model is attempted twice, every item the loop has
\* passed was launched whatever became of the others, and a batch that
\* was not cancelled returns true, each selected model attempted once.
C36_EachAttemptedOnce ==
    app.handler = "batch" =>
        /\ \A k \in DOMAIN app.g : app.attempts[k] <= 1
        /\ ~cancelled =>
               \A k \in DOMAIN app.g :
                   (k < app.i \/ app.pc \in {"drain", "returned"}) => app.g[k] # "none"
        /\ (app.pc = "returned" /\ ~cancelled) =>
               /\ app.ret = "true"
               /\ \A k \in DOMAIN app.g : app.attempts[k] = 1

\* A batch of three, not cancelled, returned: the first model failed and
\* the two after it were downloaded.
C36_Witness ==
    /\ app.handler = "batch"
    /\ ~cancelled
    /\ app.pc = "returned"
    /\ Len(app.selectedItems) = 3
    /\ app.err[1] # Nil
    /\ app.completed = {"m2", "m3"}
    /\ \A k \in DOMAIN app.g : app.attempts[k] = 1

\* C39: FindBestMatch returns an id only of an integer of at most 1000, and
\* its result is the same for every order in which the candidate map is
\* iterated.
C39_OrderIndependent ==
    call.op = "FindBestMatch" =>
        /\ call.out.sim > 0 => isValidCandidate(call.out.id)
        /\ Cardinality(call.outs) = 1


C38_ShortNamesHandled ==
    [][(/\ app.pc = "search"
        /\ app'.pc # "search"
        /\ app'.handler \in {"handleCharaSearch", "handleCharaIDSearch"}
        /\ app'.names # <<>>
        /\ app'.names[1] < 4) =>
            /\ ~app'.crashed
            /\ app'.ret = "true"
            /\ tuiModel'.ErrorMessage # <<>>
            /\ tuiModel'.State = StateInput]_vars

\* C40: close(m.cancelChan) is executed at most once, whatever keys are
\* handled.
C40_ClosedAtMostOnce ==
    tuiModel.closes <= 1 /\ ~tuiModel.panic

====
